---------------------------- MODULE Spec2Model ----------------------------
(***************************************************************************)
(* A model of the distributed rate limiter: the two admission algorithms   *)
(* (token bucket, leaky bucket) in their in-memory form and in their Redis *)
(* Lua-script form, the CRC32 shard router, the metrics collector and the  *)
(* service facade RedisRateLimiterService.                                 *)
(*                                                                         *)
(* Time is counted in ticks.  RefillRate is the configured period in       *)
(* ticks.  Go int64 arithmetic wraps at IntBits bits (the model's scaled   *)
(* word width); Lua numbers are doubles and do not wrap.  cjson.encode     *)
(* writes a number with 14 significant digits, so a nanosecond timestamp   *)
(* of magnitude 10^18 is stored rounded to a multiple of 10^5 ns: Grain    *)
(* is that multiple in ticks.                                              *)
(***************************************************************************)
EXTENDS Integers, Sequences, FiniteSets, TLC

\* ------------------------------------------------------------------ bounds
\* config.RateLimit.DefaultCapacity, scaled
Capacity == 3
\* config.RateLimit.DefaultRefill, in ticks
RefillRate == 4
\* granularity, in ticks, of a timestamp after cjson.encode
Grain == 2
\* the clock stops here
MaxTime == 8
\* word width standing for Go's int64
IntBits == 4
\* Acquire calls per run of the service
MaxRequests == 2
\* concurrent callers of one bucket
NumCallers == 4
\* goroutines in the models of calls that run together step by step
NumReaders == 2
\* len(cfg.Redis.Instances)
NumShards == 2

\* --------------------------------------------------------- Go int64, Lua
MaxInt == 2^(IntBits-1) - 1
MinInt == -(2^(IntBits-1))

\* int64 arithmetic: the result of +, -, * reduced to the word
Wrap(x) == ((x - MinInt) % (2^IntBits)) + MinInt

\* Go's integer division truncates toward zero
GoDiv(a, b) == IF a >= 0 THEN a \div b ELSE -((-a) \div b)

\* services.min (int64), also Lua's math.min on the values used here
min(a, b) == IF a < b THEN a ELSE b

\* Lua's math.floor(a / b) for b > 0
LuaFloorDiv(a, b) == a \div b

\* cjson.encode followed by cjson.decode / json.Unmarshal of a timestamp:
\* the nearest multiple of Grain (an exact tie goes to the even multiple)
EncodeNumber(t) ==
    LET q == t \div Grain
        r == t % Grain
    IN  IF 2*r < Grain THEN q * Grain
        ELSE IF 2*r > Grain THEN (q+1) * Grain
        ELSE IF q % 2 = 0 THEN q * Grain ELSE (q+1) * Grain

\* ------------------------------------------------------------ shard router
\* caller keys, as byte strings: "a" and "f"
Keys == { <<97>>, <<98>>, <<102>> }

Shards == 0 .. (NumShards - 1)

\* the bits (positions) of the reflected IEEE polynomial 0xEDB88320
IEEEPoly == {31, 30, 29, 27, 26, 24, 23, 21, 20, 19, 15, 9, 8, 5}

\* a uint32 is the function from bit position to bit
Bit(n, i) == (n \div (2^i)) % 2

XorByte(r, b) == [i \in 0..31 |-> IF i < 8 THEN (r[i] + Bit(b, i)) % 2 ELSE r[i]]

ShiftOnce(r) ==
    LET s == [i \in 0..31 |-> IF i = 31 THEN 0 ELSE r[i+1]]
    IN  IF r[0] = 1
        THEN [i \in 0..31 |-> (s[i] + (IF i \in IEEEPoly THEN 1 ELSE 0)) % 2]
        ELSE s

RECURSIVE ShiftN(_, _)
ShiftN(r, k) == IF k = 0 THEN r ELSE ShiftN(ShiftOnce(r), k - 1)

RECURSIVE UpdateCRC(_, _)
UpdateCRC(r, bytes) ==
    IF bytes = <<>> THEN r
    ELSE UpdateCRC(ShiftN(XorByte(r, Head(bytes)), 8), Tail(bytes))

\* crc32.ChecksumIEEE
ChecksumIEEE(bytes) ==
    LET r == UpdateCRC([i \in 0..31 |-> 1], bytes)
    IN  [i \in 0..31 |-> 1 - r[i]]

RECURSIVE HalfWord(_, _, _)
HalfWord(r, base, k) ==
    IF k = 0 THEN 0 ELSE r[base + k - 1] * 2^(k-1) + HalfWord(r, base, k - 1)

\* int(hash) % n where int has 32 bits: a hash of 2^31 or more turns
\* negative, and Go's % takes the sign of the dividend
HashModLen32(h, n) ==
    LET hi == HalfWord(h, 16, 16)
        lo == HalfWord(h, 0, 16)
    IN  IF h[31] = 0
        THEN (((hi % n) * (65536 % n)) + (lo % n)) % n
        ELSE -(((((65535 - hi) % n) * (65536 % n)) + ((65536 - lo) % n)) % n)

\* int(hash) % len(rm.clients), int being 64 bits wide: the uint32 keeps
\* its value (hi * 2^16 + lo), reduced modulo n part by part
HashModLen(h, n) ==
    LET hi == HalfWord(h, 16, 16)
        lo == HalfWord(h, 0, 16)
    IN  (((hi % n) * (65536 % n)) + (lo % n)) % n

\* crc32.ChecksumIEEE([]byte(userID)) of every key, computed once
KeyHash == [k \in Keys |-> ChecksumIEEE(k)]

\* RedisManager.GetClientIndex, tabulated over the keys
ClientIndexes == [userID \in Keys |-> HashModLen(KeyHash[userID], NumShards)]

GetClientIndex(userID) == ClientIndexes[userID]

\* RedisManager.GetClient: &rm.clients[index]; an index outside the slice
\* panics.  A client is represented by the index of its shard; every
\* result that is not a panic is a non-nil pointer.
Clients ==
    [userID \in Keys |->
        LET index == HashModLen(KeyHash[userID], NumShards)
        IN  IF index \in Shards
            THEN [client |-> index, isNil |-> FALSE, panic |-> FALSE]
            ELSE [client |-> index, isNil |-> FALSE, panic |-> TRUE]]

GetClient(userID) == Clients[userID]

\* ------------------------------------------------- in-memory token bucket
\* a bucket that starts with nothing in it
NewTokenBucketEmpty(capacity, refillRate, now) ==
    [capacity |-> capacity, tokens |-> 0,
     refillRate |-> refillRate, lastRefill |-> now]

\* NewTokenBucket: a full bucket anchored at the time of creation
NewTokenBucket(capacity, refillRate, now) ==
    [capacity |-> capacity, tokens |-> capacity,
     refillRate |-> refillRate, lastRefill |-> now]

\* a refill that forgets the fraction of a period: the anchor jumps to now
refillToNow(tb, now) ==
    LET refillPeriods == GoDiv(now - tb.lastRefill, tb.refillRate)
    IN  IF refillPeriods > 0
        THEN [tb EXCEPT !.tokens = min(tb.capacity, Wrap(tb.tokens + refillPeriods)),
                        !.lastRefill = now]
        ELSE tb

\* tokenBucket.refill
refill(tb, now) ==
    LET elapsed == now - tb.lastRefill
        refillPeriods == GoDiv(elapsed, tb.refillRate)
    IN  IF refillPeriods > 0
        THEN [tb EXCEPT !.tokens = min(tb.capacity, Wrap(tb.tokens + refillPeriods)),
                        !.lastRefill = tb.lastRefill + refillPeriods * tb.refillRate]
        ELSE tb

\* a TryConsume that hands out what is left when the request does not fit
TryConsumeTakesRest(tb, tokens, now) ==
    IF tokens < 0 THEN [bucket |-> tb, ok |-> FALSE]
    ELSE LET r == refill(tb, now)
         IN  IF r.tokens >= tokens
             THEN [bucket |-> [r EXCEPT !.tokens = Wrap(r.tokens - tokens)], ok |-> TRUE]
             ELSE [bucket |-> [r EXCEPT !.tokens = 0], ok |-> FALSE]

\* tokenBucket.TryConsume, the lock held from refill to return
TryConsume(tb, tokens, now) ==
    IF tokens < 0 THEN [bucket |-> tb, ok |-> FALSE]
    ELSE LET r == refill(tb, now)
         IN  IF r.tokens >= tokens
             THEN [bucket |-> [r EXCEPT !.tokens = Wrap(r.tokens - tokens)], ok |-> TRUE]
             ELSE [bucket |-> r, ok |-> FALSE]

\* a GetStatus that counts as a use of the bucket: the anchor is brought to
\* the instant of the call
TokenGetStatusTouches(tb, now) ==
    LET r == [refill(tb, now) EXCEPT !.lastRefill = now]
    IN  [bucket |-> r, tokensLeft |-> r.tokens, capacity |-> r.capacity,
         nextRefill |-> r.lastRefill + r.refillRate]

\* tokenBucket.GetStatus: refills in place, then reports
TokenGetStatus(tb, now) ==
    LET r == refill(tb, now)
    IN  [bucket |-> r, tokensLeft |-> r.tokens, capacity |-> r.capacity,
         nextRefill |-> r.lastRefill + r.refillRate]

\* ------------------------------------------------- in-memory leaky bucket
\* NewLeakyBucket: an empty queue anchored at the time of creation
NewLeakyBucket(capacity, leakRate, now) ==
    [capacity |-> capacity, queue |-> 0, leakRate |-> leakRate, lastLeak |-> now]

\* leakyBucket.leak
leak(lb, now) ==
    LET elapsed == now - lb.lastLeak
        leakPeriods == GoDiv(elapsed, lb.leakRate)
    IN  IF leakPeriods > 0 /\ lb.queue > 0
        THEN LET requestsToLeak == min(leakPeriods, lb.queue)
             IN  [lb EXCEPT !.queue = Wrap(lb.queue - requestsToLeak),
                            !.lastLeak = lb.lastLeak + requestsToLeak * lb.leakRate]
        ELSE lb

\* leakyBucket.TryAdd, the lock held from leak to return
TryAdd(lb, requests, now) ==
    IF requests < 0 THEN [bucket |-> lb, ok |-> FALSE]
    ELSE LET r == leak(lb, now)
         IN  IF Wrap(r.queue + requests) > r.capacity
             THEN [bucket |-> r, ok |-> FALSE]
             ELSE [bucket |-> [r EXCEPT !.queue = Wrap(r.queue + requests)], ok |-> TRUE]

\* leakyBucket.GetStatus: leaks in place, then reports
LeakyGetStatus(lb, now) ==
    LET r == leak(lb, now)
    IN  [bucket |-> r, queueLength |-> r.queue, capacity |-> r.capacity,
         nextLeak |-> r.lastLeak + r.leakRate]

\* ------------------------------------------------------- Redis, Lua side
\* the reply of GET for a name the shard does not hold (Lua false, redis.Nil)
NoRecord == [algorithm |-> "none"]

\* a stored value that cjson.decode / json.Unmarshal cannot read; it keeps
\* the expiry the name had
CorruptRecord(expire_at) == [algorithm |-> "corrupt", expire_at |-> expire_at]

\* EXPIRE bucket_key 3600, in ticks: the scale keeps the expiry no shorter
\* than capacity periods, as with the configured defaults (100 periods of
\* one second)
Expiry == Capacity * RefillRate

\* a write that leaves the name without a time to live
ExpireNever(now_ns) == 0

\* SET, then EXPIRE bucket_key 3600: the instant at which the name is
\* deleted unless it is written again
ExpireAt(now_ns) == now_ns + Expiry

\* "rate_limit:token_bucket:" and "rate_limit:leaky_bucket:" as bytes
TokenPrefix == <<114, 97, 116, 101, 95, 108, 105, 109, 105, 116, 58, 116, 111, 107, 101, 110, 95, 98, 117, 99, 107, 101, 116, 58>>
LeakyPrefix == <<114, 97, 116, 101, 95, 108, 105, 109, 105, 116, 58, 108, 101, 97, 107, 121, 95, 98, 117, 99, 107, 101, 116, 58>>

\* NewTokenBucketRedis / NewLeakyBucketRedis: the record's name
\* a naming that does not tell the algorithms apart
SharedKey(key) == LeakyPrefix \o key

TokenKey(key) == TokenPrefix \o key
LeakyKey(key) == LeakyPrefix \o key

RedisKeys == {TokenKey(k) : k \in Keys} \cup {LeakyKey(k) : k \in Keys}

\* a script that stores the bucket only when it admits the request
TokenScriptForgetsRejected(data, tokens_needed, capacity, refill_rate_ns, now_ns) ==
    LET current0 == IF data # NoRecord THEN data.tokens ELSE capacity
        last0 == IF data # NoRecord THEN data.last_refill_ns ELSE now_ns
        tokens_to_add == LuaFloorDiv(now_ns - last0, refill_rate_ns)
        current1 == IF tokens_to_add > 0 THEN min(capacity, current0 + tokens_to_add) ELSE current0
        last1 == IF tokens_to_add > 0 THEN last0 + tokens_to_add * refill_rate_ns ELSE last0
    IN  IF data.algorithm = "corrupt"
        THEN [data |-> data, result |-> -1]
        ELSE IF current1 >= tokens_needed
        THEN [data |-> [algorithm |-> "token_bucket", capacity |-> capacity,
                        tokens |-> current1 - tokens_needed,
                        refill_rate_ns |-> refill_rate_ns,
                        last_refill_ns |-> EncodeNumber(last1),
                        last_updated |-> EncodeNumber(now_ns),
                        expire_at |-> ExpireAt(now_ns)],
              result |-> 1]
        ELSE [data |-> data, result |-> 0]

\* the Lua script of TokenBucketRedis.TryConsume, run atomically by the
\* shard: GET, refill, check, SET (both branches), EXPIRE.  cjson.decode
\* raises an error on a value it cannot read: the script stops there and
\* Eval returns the error (result -1 here).
TokenScript(data, tokens_needed, capacity, refill_rate_ns, now_ns) ==
    LET current0 == IF data # NoRecord THEN data.tokens ELSE capacity
        last0 == IF data # NoRecord THEN data.last_refill_ns ELSE now_ns
        time_passed_ns == now_ns - last0
        tokens_to_add == LuaFloorDiv(time_passed_ns, refill_rate_ns)
        current1 == IF tokens_to_add > 0 THEN min(capacity, current0 + tokens_to_add) ELSE current0
        last1 == IF tokens_to_add > 0 THEN last0 + tokens_to_add * refill_rate_ns ELSE last0
        updated(tok) == [algorithm |-> "token_bucket", capacity |-> capacity,
                         tokens |-> tok, refill_rate_ns |-> refill_rate_ns,
                         last_refill_ns |-> EncodeNumber(last1),
                         last_updated |-> EncodeNumber(now_ns),
                         expire_at |-> ExpireAt(now_ns)]
    IN  IF data.algorithm = "corrupt"
        THEN [data |-> data, result |-> -1]
        ELSE IF current1 >= tokens_needed
        THEN [data |-> updated(current1 - tokens_needed), result |-> 1]
        ELSE [data |-> updated(current1), result |-> 0]

\* the Lua script of LeakyBucketRedis.TryAdd
LeakyScript(data, requests_to_add, capacity, leak_rate_ns, now_ns) ==
    LET queue0 == IF data # NoRecord THEN data.queue_length ELSE 0
        last0 == IF data # NoRecord THEN data.last_leak_ns ELSE now_ns
        time_passed_ns == now_ns - last0
        leak_periods == LuaFloorDiv(time_passed_ns, leak_rate_ns)
        leaking == leak_periods > 0 /\ queue0 > 0
        requests_to_leak == min(leak_periods, queue0)
        queue1 == IF leaking THEN queue0 - requests_to_leak ELSE queue0
        last1 == IF leaking THEN last0 + requests_to_leak * leak_rate_ns ELSE last0
        updated(q) == [algorithm |-> "leaky_bucket", capacity |-> capacity,
                       queue_length |-> q, leak_rate_ns |-> leak_rate_ns,
                       last_leak_ns |-> EncodeNumber(last1),
                       last_updated |-> EncodeNumber(now_ns),
                       expire_at |-> ExpireAt(now_ns)]
    IN  IF data.algorithm = "corrupt"
        THEN [data |-> data, result |-> -1]
        ELSE IF queue1 + requests_to_add <= capacity
        THEN [data |-> updated(queue1 + requests_to_add), result |-> 1]
        ELSE [data |-> updated(queue1), result |-> 0]

\* ------------------------------------------------------ Redis, Go side
\* TokenBucketRedis.TryConsume without its first check
RedisTryConsumeUnchecked(up, data, tokens, capacity, refillRate, now) ==
    IF ~up THEN [data |-> data, ok |-> FALSE]
    ELSE LET r == TokenScript(data, tokens, capacity, refillRate, now)
         IN  [data |-> r.data, ok |-> (r.result = 1)]

\* TokenBucketRedis.TryConsume: `up` is whether Eval reaches the shard; an
\* Eval error returns false and leaves the shard as it is
RedisTryConsume(up, data, tokens, capacity, refillRate, now) ==
    IF tokens < 0 THEN [data |-> data, ok |-> FALSE]
    ELSE IF ~up THEN [data |-> data, ok |-> FALSE]
    ELSE LET r == TokenScript(data, tokens, capacity, refillRate, now)
         IN  [data |-> r.data, ok |-> (r.result = 1)]

\* LeakyBucketRedis.TryAdd
RedisTryAdd(up, data, requests, capacity, leakRate, now) ==
    IF requests < 0 THEN [data |-> data, ok |-> FALSE]
    ELSE IF ~up THEN [data |-> data, ok |-> FALSE]
    ELSE LET r == LeakyScript(data, requests, capacity, leakRate, now)
         IN  [data |-> r.data, ok |-> (r.result = 1)]

\* TokenBucketRedis.GetStatus: a read, with the refill simulated in Go; a
\* GET error and a json.Unmarshal error both give the defaults
RedisTokenGetStatus(up, data, capacity, refillRate, now) ==
    IF ~up \/ data = NoRecord \/ data.algorithm = "corrupt"
    THEN [tokensLeft |-> capacity, capacity |-> capacity, nextRefill |-> now + refillRate]
    ELSE LET timePassed == now - data.last_refill_ns
             tokensToAdd == GoDiv(timePassed, data.refill_rate_ns)
             currentTokens == Wrap(data.tokens + tokensToAdd)
         IN  [tokensLeft |-> IF currentTokens > data.capacity THEN data.capacity
                             ELSE currentTokens,
              capacity |-> data.capacity,
              nextRefill |-> data.last_refill_ns + data.refill_rate_ns]

\* LeakyBucketRedis.GetStatus
RedisLeakyGetStatus(up, data, capacity, leakRate, now) ==
    IF ~up \/ data = NoRecord \/ data.algorithm = "corrupt"
    THEN [queueLength |-> 0, capacity |-> capacity, nextLeak |-> now + leakRate]
    ELSE LET timePassed == now - data.last_leak_ns
             leakPeriods == GoDiv(timePassed, data.leak_rate_ns)
             currentQueue == Wrap(data.queue_length - leakPeriods)
         IN  [queueLength |-> IF currentQueue < 0 THEN 0 ELSE currentQueue,
              capacity |-> data.capacity,
              nextLeak |-> data.last_leak_ns + data.leak_rate_ns]

\* TokenBucketRedis.HasState / LeakyBucketRedis.HasState: GET without error
RedisHasState(up, data) == up /\ data # NoRecord

\* ------------------------------------------------------------------ state
VARIABLES
    now,            \* the clock read by time.Now(), in ticks
    shardUp,        \* shard index -> whether a call to it succeeds
    redis,          \* shard index -> (record name -> stored record)
    tokenBuckets,   \* rrs.tokenBuckets: key -> *tokenBucket
    leakyBuckets,   \* rrs.leakyBuckets: key -> *leakyBucket
    metrics,        \* the MetricsCollector's request counters
    out,            \* what the operation that has just run returned
    hist,           \* the in-memory bucket as the last TryConsume / TryAdd left it; the record
                    \* last stored (configured engines); the buckets allocated (creation)
    mode,           \* which part of the program the run exercises, or its configuration
    callers,        \* concurrent callers of one bucket: position, clock read, level seen, result
    mutex           \* tb.mutex: the caller holding it, 0 when free; rrs.mutex in the creation model

vars == <<now, shardUp, redis, tokenBuckets, leakyBuckets, metrics, out, hist, mode, callers, mutex>>

\* the permit counts a caller may ask for
Requests == {-1, 0, 1, 2, Capacity, Capacity + 1, MaxInt}

\* a Go map / a shard's keyspace is a function on the names it holds
Put(m, k, v) == [x \in (DOMAIN m) \cup {k} |-> IF x = k THEN v ELSE m[x]]

EmptyMap == [x \in {} |-> 0]

\* GET name
Get(store, name) == IF name \in DOMAIN store THEN store[name] ELSE NoRecord

\* the shard's keyspace after a call: nothing is stored when no script ran
\* on a name the shard does not hold
Store(store, name, data) == IF data = NoRecord THEN store ELSE Put(store, name, data)

\* rrs.getOrCreateTokenBucket, the map lock held around check and insert
getOrCreateTokenBucket(buckets, key, t) ==
    IF key \in DOMAIN buckets THEN buckets
    ELSE Put(buckets, key, NewTokenBucket(Capacity, RefillRate, t))

\* rrs.getOrCreateLeakyBucket
getOrCreateLeakyBucket(buckets, key, t) ==
    IF key \in DOMAIN buckets THEN buckets
    ELSE Put(buckets, key, NewLeakyBucket(Capacity, RefillRate, t))

NoOut == [op |-> "none"]
NoMetrics == [total |-> 0, successful |-> 0, rateLimited |-> 0, errors |-> 0]
NoHist == [valid |-> FALSE]
NoCallers == << >>

\* what a shard still holds at time t: a name whose expiry has come is gone
Unexpired(store, t) ==
    [name \in {x \in DOMAIN store : store[x].expire_at > t} |-> store[name]]

\* the clock advances by one tick, on the shards too
Advance ==
    /\ now' = now + 1
    /\ redis' = [s \in DOMAIN redis |-> Unexpired(redis[s], now + 1)]
    /\ out' = NoOut
    /\ UNCHANGED <<shardUp, tokenBuckets, leakyBuckets, metrics, hist, mode, callers, mutex>>

Tick ==
    /\ now < MaxTime
    /\ Advance

\* -------------------------------------------- the two engines side by side
\* One key, its shard reachable, one algorithm per run: every operation is
\* given to the in-memory engine (as acquireInMemoryFallback does) and to
\* the Redis engine at the same instant.
EngineKey == <<97>>
EngineShard == GetClient(EngineKey).client

InitEngines ==
    /\ now = 0
    /\ shardUp = [s \in Shards |-> TRUE]
    /\ redis = [s \in Shards |-> EmptyMap]
    /\ tokenBuckets = EmptyMap
    /\ leakyBuckets = EmptyMap
    /\ metrics = NoMetrics
    /\ out = NoOut
    /\ hist = NoHist
    /\ callers = NoCallers
    /\ mutex = 0
    /\ mode \in {"token_bucket", "leaky_bucket"}

EngTryConsume(n) ==
    /\ mode = "token_bucket"
    /\ LET buckets == getOrCreateTokenBucket(tokenBuckets, EngineKey, now)
           l == TryConsume(buckets[EngineKey], n, now)
           name == TokenKey(EngineKey)
           r == RedisTryConsume(TRUE, Get(redis[EngineShard], name), n,
                                Capacity, RefillRate, now)
       IN  /\ tokenBuckets' = Put(buckets, EngineKey, l.bucket)
           /\ redis' = [redis EXCEPT ![EngineShard] = Store(@, name, r.data)]
           /\ out' = [op |-> "TryConsume", n |-> n, localOk |-> l.ok, remoteOk |-> r.ok,
                      localNew |-> EngineKey \notin DOMAIN tokenBuckets,
                      remoteNew |-> Get(redis[EngineShard], name) = NoRecord]
           /\ hist' = IF n < 0 THEN hist
                      ELSE [valid |-> TRUE, at |-> now, level |-> l.bucket.tokens,
                            anchor |-> l.bucket.lastRefill]
    /\ UNCHANGED <<now, shardUp, leakyBuckets, metrics, mode, callers, mutex>>

EngTryAdd(n) ==
    /\ mode = "leaky_bucket"
    /\ LET buckets == getOrCreateLeakyBucket(leakyBuckets, EngineKey, now)
           l == TryAdd(buckets[EngineKey], n, now)
           name == LeakyKey(EngineKey)
           r == RedisTryAdd(TRUE, Get(redis[EngineShard], name), n,
                            Capacity, RefillRate, now)
       IN  /\ leakyBuckets' = Put(buckets, EngineKey, l.bucket)
           /\ redis' = [redis EXCEPT ![EngineShard] = Store(@, name, r.data)]
           /\ out' = [op |-> "TryAdd", n |-> n, localOk |-> l.ok, remoteOk |-> r.ok,
                      localNew |-> EngineKey \notin DOMAIN leakyBuckets,
                      remoteNew |-> Get(redis[EngineShard], name) = NoRecord]
           /\ hist' = IF n < 0 THEN hist
                      ELSE [valid |-> TRUE, at |-> now, level |-> l.bucket.queue,
                            anchor |-> l.bucket.lastLeak]
    /\ UNCHANGED <<now, shardUp, tokenBuckets, metrics, mode, callers, mutex>>

\* tokenBucket.GetStatus on the key's bucket, TokenBucketRedis.GetStatus on
\* its record
EngTokenStatus ==
    /\ mode = "token_bucket"
    /\ EngineKey \in DOMAIN tokenBuckets
    /\ LET l == TokenGetStatus(tokenBuckets[EngineKey], now)
           r == RedisTokenGetStatus(TRUE, Get(redis[EngineShard], TokenKey(EngineKey)),
                                    Capacity, RefillRate, now)
       IN  /\ tokenBuckets' = Put(tokenBuckets, EngineKey, l.bucket)
           /\ out' = [op |-> "TokenStatus",
                      local |-> [tokensLeft |-> l.tokensLeft, capacity |-> l.capacity,
                                 nextRefill |-> l.nextRefill],
                      remote |-> r]
    /\ UNCHANGED <<now, shardUp, redis, leakyBuckets, metrics, hist, mode, callers, mutex>>

\* leakyBucket.GetStatus and LeakyBucketRedis.GetStatus
EngLeakyStatus ==
    /\ mode = "leaky_bucket"
    /\ EngineKey \in DOMAIN leakyBuckets
    /\ LET l == LeakyGetStatus(leakyBuckets[EngineKey], now)
           r == RedisLeakyGetStatus(TRUE, Get(redis[EngineShard], LeakyKey(EngineKey)),
                                    Capacity, RefillRate, now)
       IN  /\ leakyBuckets' = Put(leakyBuckets, EngineKey, l.bucket)
           /\ out' = [op |-> "LeakyStatus",
                      local |-> [queueLength |-> l.queueLength, capacity |-> l.capacity,
                                 nextLeak |-> l.nextLeak],
                      remote |-> r]
    /\ UNCHANGED <<now, shardUp, redis, tokenBuckets, metrics, hist, mode, callers, mutex>>

EngineMode == mode \in {"token_bucket", "leaky_bucket"}

NextEngines ==
    \/ EngineMode /\ Tick
    \/ \E n \in Requests : EngTryConsume(n)
    \/ \E n \in Requests : EngTryAdd(n)
    \/ EngTokenStatus
    \/ EngLeakyStatus

SpecEngines == InitEngines /\ [][NextEngines]_vars

\* an operation (not the clock, not a change of a shard's health) has just
\* produced the result `op`
Did(op) == out'.op = op /\ now' = now /\ shardUp' = shardUp

\* ------------------------------------------------ claims on the engines
EngTb == tokenBuckets[EngineKey]
EngLb == leakyBuckets[EngineKey]
EngTbr == Get(redis[EngineShard], TokenKey(EngineKey))
EngLbr == Get(redis[EngineShard], LeakyKey(EngineKey))

Max0(x) == IF x > 0 THEN x ELSE 0

\* C1: every stored level, in the in-memory buckets and in the shard
\* records, of both algorithms, lies in 0..capacity after any sequence of
\* Acquire calls with n >= 0 and any passage of time.
C1_LevelWithinCapacity ==
    /\ \A k \in DOMAIN tokenBuckets :
          0 <= tokenBuckets[k].tokens /\ tokenBuckets[k].tokens <= tokenBuckets[k].capacity
    /\ \A k \in DOMAIN leakyBuckets :
          0 <= leakyBuckets[k].queue /\ leakyBuckets[k].queue <= leakyBuckets[k].capacity
    /\ \A s \in Shards : \A k \in Keys :
          /\ TokenKey(k) \in DOMAIN redis[s] =>
                /\ 0 <= redis[s][TokenKey(k)].tokens
                /\ redis[s][TokenKey(k)].tokens <= redis[s][TokenKey(k)].capacity
          /\ LeakyKey(k) \in DOMAIN redis[s] =>
                /\ 0 <= redis[s][LeakyKey(k)].queue_length
                /\ redis[s][LeakyKey(k)].queue_length <= redis[s][LeakyKey(k)].capacity

\* C6 as claimed: after a TryConsume that left `level` tokens, a wait of w
\* ticks (m whole periods plus any fraction) makes GetStatus report
\* min(C, level + m), m = w \div period.
C6_RefillCountedFromConsumption ==
    [][ (Did("TokenStatus") /\ hist.valid) =>
            out'.local.tokensLeft =
                min(Capacity, hist.level + ((now - hist.at) \div RefillRate)) ]_vars

\* C6 as amended: the wait counts from the bucket's anchor as that
\* TryConsume left it, so GetStatus reports
\* min(C, level + ((t - anchor) \div period)), whatever GetStatus calls came
\* in between, and a TryConsume(n) at that instant succeeds exactly when n
\* is at most that and leaves the difference; this is min(C, level + m)
\* when the wait is exactly m periods or the consumption happened at the
\* anchor.
C6_RefillCountedFromAnchor ==
    [][ LET avail == min(Capacity, hist.level + ((now - hist.anchor) \div RefillRate))
            fromConsumption == min(Capacity, hist.level + ((now - hist.at) \div RefillRate))
        IN  /\ (Did("TokenStatus") /\ hist.valid) =>
                  /\ out'.local.tokensLeft = avail
                  /\ ((now - hist.at) % RefillRate = 0 \/ hist.at = hist.anchor) =>
                        out'.local.tokensLeft = fromConsumption
            /\ (Did("TryConsume") /\ hist.valid /\ out'.n >= 0) =>
                  /\ out'.localOk = (out'.n <= avail)
                  /\ out'.localOk => tokenBuckets'[EngineKey].tokens = avail - out'.n
      ]_vars

\* C6's case: tokens were consumed off the anchor, and a later GetStatus
\* saw the bucket refilled
C6_Witness ==
    /\ out.op = "TokenStatus"
    /\ hist.valid
    /\ hist.at > hist.anchor
    /\ hist.level < out.local.tokensLeft
    /\ out.local.tokensLeft < Capacity

\* C7: after a TryAdd that left `level` units queued (0 <= level <=
\* capacity), a wait of exactly m periods makes GetStatus report a queue
\* length of max(0, level - m), also when the bucket had sat empty before.
C7_DrainCountedFromAdd ==
    [][ (/\ Did("LeakyStatus")
         /\ hist.valid
         /\ 0 <= hist.level /\ hist.level <= Capacity
         /\ (now - hist.at) % RefillRate = 0) =>
            out'.local.queueLength = Max0(hist.level - ((now - hist.at) \div RefillRate))
      ]_vars

\* C8: the in-memory engine and the Redis engine, given the same operations
\* at the same instants, return the same boolean and end each step with the
\* same level and the same anchor time.
C8_FallbackEquivalence ==
    /\ (out.op = "TryConsume" /\ out.n >= 0) =>
          /\ out.localOk = out.remoteOk
          /\ EngTb.tokens = EngTbr.tokens
          /\ EngTb.lastRefill = EngTbr.last_refill_ns
    /\ (out.op = "TryAdd" /\ out.n >= 0) =>
          /\ out.localOk = out.remoteOk
          /\ EngLb.queue = EngLbr.queue_length
          /\ EngLb.lastLeak = EngLbr.last_leak_ns

\* C10: a rejected TryConsume / TryAdd leaves the level that the refill /
\* drain alone gives, and a request that fits that level is admitted; in
\* the in-memory engine and in the Redis engine.
C10_RejectionConsumesNothing ==
    [][ LET preTb == IF EngineKey \in DOMAIN tokenBuckets THEN EngTb
                     ELSE NewTokenBucket(Capacity, RefillRate, now)
            availTb == min(Capacity, preTb.tokens
                              + Max0((now - preTb.lastRefill) \div RefillRate))
            availTbr == IF EngTbr = NoRecord THEN Capacity
                        ELSE min(Capacity, EngTbr.tokens
                                 + Max0((now - EngTbr.last_refill_ns) \div RefillRate))
            preLb == IF EngineKey \in DOMAIN leakyBuckets THEN EngLb
                     ELSE NewLeakyBucket(Capacity, RefillRate, now)
            queueLb == IF preLb.queue > 0
                       THEN preLb.queue - min(preLb.queue,
                                Max0((now - preLb.lastLeak) \div RefillRate))
                       ELSE preLb.queue
            queueLbr == IF EngLbr = NoRecord THEN 0
                        ELSE IF EngLbr.queue_length > 0
                        THEN EngLbr.queue_length - min(EngLbr.queue_length,
                                Max0((now - EngLbr.last_leak_ns) \div RefillRate))
                        ELSE EngLbr.queue_length
        IN  /\ (Did("TryConsume") /\ out'.n >= 0) =>
                  /\ ~out'.localOk => tokenBuckets'[EngineKey].tokens = availTb
                  /\ out'.n <= availTb => out'.localOk
                  /\ ~out'.remoteOk => EngTbr' # NoRecord /\ EngTbr'.tokens = availTbr
                  /\ out'.n <= availTbr => out'.remoteOk
            /\ (Did("TryAdd") /\ out'.n >= 0) =>
                  /\ ~out'.localOk => leakyBuckets'[EngineKey].queue = queueLb
                  /\ queueLb + out'.n <= Capacity => out'.localOk
                  /\ ~out'.remoteOk => EngLbr' # NoRecord /\ EngLbr'.queue_length = queueLbr
                  /\ queueLbr + out'.n <= Capacity => out'.remoteOk
      ]_vars

\* C10's case: a request was rejected by both engines while tokens remained
C10_Witness ==
    /\ out.op = "TryConsume"
    /\ out.n >= 0
    /\ ~out.localOk /\ ~out.remoteOk
    /\ EngTb.tokens > 0 /\ EngTbr.tokens > 0

\* ------------------------------------------------------------ the service
\* the algorithm strings a caller may pass: the two known ones, the empty
\* string and an unrecognized one
Algorithms == {"token_bucket", "leaky_bucket", "", "sliding_window"}

\* the request sizes given to the service
AcquireTokens == {-1, 0, 1, Capacity + 1}

\* the requests made of the service: every size and every algorithm string
\* for the key "a", single-permit token bucket requests for the other keys
AcquireInputs ==
    ({<<97>>} \X AcquireTokens \X Algorithms)
        \cup ((Keys \ {<<97>>}) \X {1} \X {"token_bucket"})

\* how far the clock runs in the service: one full period
ServiceTime == RefillRate

\* an increment that is lost when the counter was already written
AddInt64Lossy(v, delta) == IF v = 0 THEN v + delta ELSE v

\* atomic.AddInt64: one indivisible read-modify-write
AddInt64(v, delta) == v + delta

\* RecordRequest, first statement: the total
CountTotal(m) == [m EXCEPT !.total = AddInt64(@, 1)]

\* RecordRequest, the if / else if / else: exactly one outcome counter
CountOutcome(m, success, rateLimited) ==
    IF success THEN [m EXCEPT !.successful = AddInt64(@, 1)]
    ELSE IF rateLimited THEN [m EXCEPT !.rateLimited = AddInt64(@, 1)]
    ELSE [m EXCEPT !.errors = AddInt64(@, 1)]

\* a RecordRequest as a caller that never sets rateLimited would have it:
\* whatever is not a success is an error
RecordRequestNeverLimited(m, success, rateLimited) ==
    CountOutcome(CountTotal(m), success, FALSE)

\* MetricsCollector.RecordRequest
RecordRequest(m, success, rateLimited) ==
    CountOutcome(CountTotal(m), success, rateLimited)

\* rrs.acquireInMemoryFallback: the map entry is made first, then asked
acquireInMemoryFallback(tbs, lbs, key, tokens, algorithm, t) ==
    IF algorithm = "leaky_bucket"
    THEN LET made == getOrCreateLeakyBucket(lbs, key, t)
             r == TryAdd(made[key], tokens, t)
         IN  [tokenBuckets |-> tbs, leakyBuckets |-> Put(made, key, r.bucket), ok |-> r.ok]
    ELSE LET made == getOrCreateTokenBucket(tbs, key, t)
             r == TryConsume(made[key], tokens, t)
         IN  [tokenBuckets |-> Put(made, key, r.bucket), leakyBuckets |-> lbs, ok |-> r.ok]

\* an Acquire whose switch sends every string but "token_bucket" to the
\* leaky bucket
acquireRedisLeakyDefault(store, up, key, tokens, algorithm, t) ==
    IF algorithm # "token_bucket"
    THEN LET r == RedisTryAdd(up, Get(store, LeakyKey(key)), tokens, Capacity, RefillRate, t)
         IN  [store |-> Store(store, LeakyKey(key), r.data), ok |-> r.ok]
    ELSE LET r == RedisTryConsume(up, Get(store, TokenKey(key)), tokens, Capacity, RefillRate, t)
         IN  [store |-> Store(store, TokenKey(key), r.data), ok |-> r.ok]

\* an Acquire that stops asking the shards once a call has failed
acquireRedisOnceFailedNeverAgain(store, up, key, tokens, algorithm, t) ==
    IF metrics.rateLimited > 0 \/ metrics.errors > 0
    THEN [store |-> store, ok |-> FALSE]
    ELSE IF algorithm = "leaky_bucket"
    THEN LET r == RedisTryAdd(up, Get(store, LeakyKey(key)), tokens, Capacity, RefillRate, t)
         IN  [store |-> Store(store, LeakyKey(key), r.data), ok |-> r.ok]
    ELSE LET r == RedisTryConsume(up, Get(store, TokenKey(key)), tokens, Capacity, RefillRate, t)
         IN  [store |-> Store(store, TokenKey(key), r.data), ok |-> r.ok]

\* the Redis branch of rrs.Acquire on the client the router gave
acquireRedis(store, up, key, tokens, algorithm, t) ==
    IF algorithm = "leaky_bucket"
    THEN LET r == RedisTryAdd(up, Get(store, LeakyKey(key)), tokens, Capacity, RefillRate, t)
         IN  [store |-> Store(store, LeakyKey(key), r.data), ok |-> r.ok]
    ELSE LET r == RedisTryConsume(up, Get(store, TokenKey(key)), tokens, Capacity, RefillRate, t)
         IN  [store |-> Store(store, TokenKey(key), r.data), ok |-> r.ok]

\* models.AlgorithmStatus
AlgorithmStatus(algorithm, tokensLeft, capacity, nextRefillTime, isBlocked, hasState) ==
    [algorithm |-> algorithm, tokensLeft |-> tokensLeft, capacity |-> capacity,
     refillRate |-> RefillRate, nextRefillTime |-> nextRefillTime,
     isBlocked |-> isBlocked, hasState |-> hasState]

\* the status returned for an algorithm without state: the configured
\* defaults
DefaultStatus(algorithm, t) ==
    AlgorithmStatus(algorithm, Capacity, Capacity, t + RefillRate, FALSE, FALSE)

\* rrs.getInMemoryTokenBucketStatus; bucket.GetStatus refills in place
getInMemoryTokenBucketStatus(tbs, key, t) ==
    IF key \in DOMAIN tbs
    THEN LET g == TokenGetStatus(tbs[key], t)
         IN  [status |-> AlgorithmStatus("token_bucket", g.tokensLeft, g.capacity,
                                         g.nextRefill, g.tokensLeft = 0, TRUE),
              buckets |-> Put(tbs, key, g.bucket)]
    ELSE [status |-> DefaultStatus("token_bucket", t), buckets |-> tbs]

\* rrs.getInMemoryLeakyBucketStatus
getInMemoryLeakyBucketStatus(lbs, key, t) ==
    IF key \in DOMAIN lbs
    THEN LET g == LeakyGetStatus(lbs[key], t)
         IN  [status |-> AlgorithmStatus("leaky_bucket", Wrap(g.capacity - g.queueLength),
                                         g.capacity, g.nextLeak,
                                         g.queueLength >= g.capacity, TRUE),
              buckets |-> Put(lbs, key, g.bucket)]
    ELSE [status |-> DefaultStatus("leaky_bucket", t), buckets |-> lbs]

\* rrs.getTokenBucketStatus: HasState, then GetStatus, on the routed client
getTokenBucketStatus(store, up, tbs, key, t) ==
    LET c == GetClient(key)
        data == Get(store, TokenKey(key))
    IN  IF c.isNil THEN getInMemoryTokenBucketStatus(tbs, key, t)
        ELSE IF ~RedisHasState(up, data)
        THEN [status |-> DefaultStatus("token_bucket", t), buckets |-> tbs]
        ELSE LET g == RedisTokenGetStatus(up, data, Capacity, RefillRate, t)
             IN  [status |-> AlgorithmStatus("token_bucket", g.tokensLeft, g.capacity,
                                             g.nextRefill, g.tokensLeft = 0, TRUE),
                  buckets |-> tbs]

\* rrs.getLeakyBucketStatus
getLeakyBucketStatus(store, up, lbs, key, t) ==
    LET c == GetClient(key)
        data == Get(store, LeakyKey(key))
    IN  IF c.isNil THEN getInMemoryLeakyBucketStatus(lbs, key, t)
        ELSE IF ~RedisHasState(up, data)
        THEN [status |-> DefaultStatus("leaky_bucket", t), buckets |-> lbs]
        ELSE LET g == RedisLeakyGetStatus(up, data, Capacity, RefillRate, t)
             IN  [status |-> AlgorithmStatus("leaky_bucket", Wrap(g.capacity - g.queueLength),
                                             g.capacity, g.nextLeak,
                                             g.queueLength >= g.capacity, TRUE),
                  buckets |-> lbs]

\* a GetStatus that reports the token bucket whatever state there is
primaryAlwaysToken(tokenBucketStatus, leakyBucketStatus) == "token_bucket"

\* rrs.GetStatus: which algorithm the summary is taken from
primaryAlgorithm(tokenBucketStatus, leakyBucketStatus) ==
    IF tokenBucketStatus.hasState /\ leakyBucketStatus.hasState
    THEN IF tokenBucketStatus.tokensLeft < tokenBucketStatus.capacity THEN "token_bucket"
         ELSE IF leakyBucketStatus.tokensLeft < leakyBucketStatus.capacity THEN "leaky_bucket"
         ELSE "token_bucket"
    ELSE IF tokenBucketStatus.hasState THEN "token_bucket"
    ELSE IF leakyBucketStatus.hasState THEN "leaky_bucket"
    ELSE "token_bucket"

\* a nil *AlgorithmStatus
NoDetail == [algorithm |-> "none"]

Init ==
    /\ now = 0
    /\ shardUp = [s \in Shards |-> TRUE]
    /\ redis = [s \in Shards |-> EmptyMap]
    /\ tokenBuckets = EmptyMap
    /\ leakyBuckets = EmptyMap
    /\ metrics = NoMetrics
    /\ out = NoOut
    /\ hist = NoHist
    /\ callers = NoCallers
    /\ mutex = 0
    /\ mode = "service"

\* a shard becomes unreachable; what it stores stays
ShardDown(s) ==
    /\ shardUp[s]
    /\ shardUp' = [shardUp EXCEPT ![s] = FALSE]
    /\ out' = NoOut
    /\ UNCHANGED <<now, redis, tokenBuckets, leakyBuckets, metrics, hist, mode, callers, mutex>>

ShardUp(s) ==
    /\ ~shardUp[s]
    /\ shardUp' = [shardUp EXCEPT ![s] = TRUE]
    /\ out' = NoOut
    /\ UNCHANGED <<now, redis, tokenBuckets, leakyBuckets, metrics, hist, mode, callers, mutex>>

\* rrs.Acquire(key, tokens, algorithm)
Acquire(key, tokens, algorithm) ==
    /\ metrics.total < MaxRequests
    /\ LET c == GetClient(key)
       IN  IF c.panic
           THEN /\ out' = [op |-> "Acquire", key |-> key, n |-> tokens,
                           algorithm |-> algorithm, index |-> c.client,
                           up |-> FALSE, result |-> FALSE, panic |-> TRUE]
                /\ UNCHANGED <<redis, tokenBuckets, leakyBuckets, metrics>>
           ELSE IF c.isNil
           THEN LET f == acquireInMemoryFallback(tokenBuckets, leakyBuckets, key,
                                                 tokens, algorithm, now)
                IN  /\ tokenBuckets' = f.tokenBuckets
                    /\ leakyBuckets' = f.leakyBuckets
                    /\ metrics' = RecordRequest(metrics, f.ok, ~f.ok)
                    /\ out' = [op |-> "Acquire", key |-> key, n |-> tokens,
                               algorithm |-> algorithm, index |-> c.client,
                               up |-> FALSE, result |-> f.ok, panic |-> FALSE]
                    /\ UNCHANGED redis
           ELSE LET r == acquireRedis(redis[c.client], shardUp[c.client], key,
                                      tokens, algorithm, now)
                IN  /\ redis' = [redis EXCEPT ![c.client] = r.store]
                    /\ metrics' = RecordRequest(metrics, r.ok, ~r.ok)
                    /\ out' = [op |-> "Acquire", key |-> key, n |-> tokens,
                               algorithm |-> algorithm, index |-> c.client,
                               up |-> shardUp[c.client], result |-> r.ok,
                               panic |-> FALSE]
                    /\ UNCHANGED <<tokenBuckets, leakyBuckets>>
    /\ UNCHANGED <<now, shardUp, hist, mode, callers, mutex>>

\* rrs.GetStatus(key): models.StatusResponse
GetStatus(key) ==
    /\ ~GetClient(key).panic
    /\ LET s == GetClient(key).client
           t == getTokenBucketStatus(redis[s], shardUp[s], tokenBuckets, key, now)
           l == getLeakyBucketStatus(redis[s], shardUp[s], leakyBuckets, key, now)
           primary == primaryAlgorithm(t.status, l.status)
           primaryStatus == IF primary = "leaky_bucket" THEN l.status ELSE t.status
       IN  /\ tokenBuckets' = t.buckets
           /\ leakyBuckets' = l.buckets
           /\ out' = [op |-> "GetStatus", key |-> key,
                      algorithm |-> primary,
                      tokensLeft |-> primaryStatus.tokensLeft,
                      capacity |-> primaryStatus.capacity,
                      refillRate |-> primaryStatus.refillRate,
                      nextRefillTime |-> primaryStatus.nextRefillTime,
                      isBlocked |-> primaryStatus.isBlocked,
                      tokenBucketStatus |-> IF t.status.hasState THEN t.status ELSE NoDetail,
                      leakyBucketStatus |-> IF l.status.hasState THEN l.status ELSE NoDetail]
    /\ UNCHANGED <<now, shardUp, redis, metrics, hist, mode, callers, mutex>>

\* a stored value is damaged on its shard
Corrupt(key) ==
    /\ ~GetClient(key).panic
    /\ \E name \in {TokenKey(key), LeakyKey(key)} :
          LET s == GetClient(key).client
          IN  /\ name \in DOMAIN redis[s]
              /\ redis[s][name].algorithm # "corrupt"
              /\ redis' = [redis EXCEPT
                              ![s] = Put(@, name, CorruptRecord(redis[s][name].expire_at))]
    /\ out' = NoOut
    /\ UNCHANGED <<now, shardUp, tokenBuckets, leakyBuckets, metrics, hist, mode, callers, mutex>>

\* the clock advances in the service
ServiceTick ==
    /\ now < ServiceTime
    /\ Advance

Next ==
    \/ ServiceTick
    \/ Corrupt(<<97>>)
    \/ GetStatus(<<97>>)
    \/ \E s \in Shards : ShardDown(s)
    \/ \E s \in Shards : ShardUp(s)
    \/ \E i \in AcquireInputs : Acquire(i[1], i[2], i[3])

Spec == Init /\ [][Next]_vars

\* ------------------------------------------------ claims on the service
\* C3: when the routed shard cannot be reached, Acquire runs the in-memory
\* engine of the requested algorithm for that key and returns its decision.
C3_FallbackOnRemoteFailure ==
    [][ (/\ Did("Acquire")
         /\ out'.n >= 0
         /\ ~shardUp[GetClientIndex(out'.key)]) =>
            LET f == acquireInMemoryFallback(tokenBuckets, leakyBuckets, out'.key,
                                             out'.n, out'.algorithm, now)
            IN  /\ out'.result = f.ok
                /\ tokenBuckets' = f.tokenBuckets
                /\ leakyBuckets' = f.leakyBuckets
      ]_vars

\* C4: Acquire with n < 0 returns false and changes neither a shard record
\* nor an in-memory bucket: none is created, none is modified.
C4_NegativeRejectedUntouched ==
    [][ (Did("Acquire") /\ out'.n < 0) =>
            /\ out'.result = FALSE
            /\ redis' = redis
            /\ tokenBuckets' = tokenBuckets
            /\ leakyBuckets' = leakyBuckets
      ]_vars

\* C4's case: a negative request came in for a key whose shard was
\* reachable and held a record of it
C4_Witness ==
    /\ out.op = "Acquire"
    /\ out.n < 0
    /\ out.up
    /\ out.result = FALSE
    /\ TokenKey(out.key) \in DOMAIN redis[out.index]
    /\ out.algorithm = "token_bucket"

\* C5: Acquire with n = 0 returns true and changes no state: no level, no
\* anchor, no record comes to exist; also when the shard is unreachable.
C5_ZeroIsReadOnly ==
    [][ (Did("Acquire") /\ out'.n = 0) =>
            /\ out'.result = TRUE
            /\ redis' = redis
            /\ tokenBuckets' = tokenBuckets
            /\ leakyBuckets' = leakyBuckets
      ]_vars

\* C9: GetClient and GetClientIndex give a key the same shard, one of
\* 0..N-1, never nil, whatever the health of the shards and whatever was
\* requested before; an Acquire touches no other shard.
C9_RoutingTotalAndStable ==
    [][ Did("Acquire") =>
            /\ ~out'.panic
            /\ out'.index \in Shards
            /\ out'.index = GetClientIndex(out'.key)
            /\ ~GetClient(out'.key).isNil
            /\ \A s \in Shards \ {out'.index} : redis'[s] = redis[s]
      ]_vars

\* C9's case: after an earlier request was served, a key's shard was
\* unreachable and the request was routed to that shard all the same
C9_Witness ==
    /\ out.op = "Acquire"
    /\ ~out.up
    /\ out.index = GetClientIndex(out.key)
    /\ out.result = FALSE
    /\ out.n = 1
    /\ metrics.successful >= 1

\* ------------------------------------------- concurrent callers, one bucket
\* NumCallers goroutines call TryConsume(n) on the same full bucket, either
\* the in-memory one (mode "local") or the Redis one (mode "redis"), and
\* the clock stays within the first period.
Callers == 1..NumCallers

\* tb.mutex.Lock() returns once nobody holds the lock
MutexNeverHeld(m) == TRUE

MutexFree(m) == m = 0

InitConc ==
    /\ now = 0
    /\ shardUp = [s \in Shards |-> TRUE]
    /\ redis = [s \in Shards |-> EmptyMap]
    /\ tokenBuckets = Put(EmptyMap, EngineKey, NewTokenBucket(Capacity, RefillRate, 0))
    /\ leakyBuckets = EmptyMap
    /\ metrics = NoMetrics
    /\ out = NoOut
    /\ hist = NoHist
    /\ mode \in {"local", "redis"}
    /\ \E n \in 1..Capacity :
          /\ NumCallers * n > Capacity
          /\ callers = [c \in Callers |->
                           [pc |-> "start", n |-> n, t |-> 0, seen |-> 0, ok |-> FALSE]]
    /\ mutex = 0

ConcFrame == UNCHANGED <<now, shardUp, leakyBuckets, metrics, out, hist, mode>>

\* tokenBucket.TryConsume: the sign check, then tb.mutex.Lock()
LocalLock(c) ==
    /\ mode = "local"
    /\ callers[c].pc = "start"
    /\ IF callers[c].n < 0
       THEN /\ callers' = [callers EXCEPT ![c].pc = "done"]
            /\ UNCHANGED mutex
       ELSE /\ MutexFree(mutex)
            /\ mutex' = c
            /\ callers' = [callers EXCEPT ![c].pc = "refill"]
    /\ UNCHANGED <<tokenBuckets, redis>>
    /\ ConcFrame

\* tb.refill()
LocalRefill(c) ==
    /\ mode = "local"
    /\ callers[c].pc = "refill"
    /\ tokenBuckets' = [tokenBuckets EXCEPT ![EngineKey] = refill(@, now)]
    /\ callers' = [callers EXCEPT ![c].pc = "check"]
    /\ UNCHANGED <<redis, mutex>>
    /\ ConcFrame

\* if tb.tokens >= tokens
LocalCheck(c) ==
    /\ mode = "local"
    /\ callers[c].pc = "check"
    /\ LET level == tokenBuckets[EngineKey].tokens
       IN  callers' = [callers EXCEPT
                          ![c].seen = level,
                          ![c].ok = (level >= callers[c].n),
                          ![c].pc = IF level >= callers[c].n THEN "subtract" ELSE "unlock"]
    /\ UNCHANGED <<tokenBuckets, redis, mutex>>
    /\ ConcFrame

\* tb.tokens -= tokens
LocalSubtract(c) ==
    /\ mode = "local"
    /\ callers[c].pc = "subtract"
    /\ tokenBuckets' = [tokenBuckets EXCEPT
                           ![EngineKey].tokens = Wrap(@ - callers[c].n)]
    /\ callers' = [callers EXCEPT ![c].pc = "unlock"]
    /\ UNCHANGED <<redis, mutex>>
    /\ ConcFrame

\* the deferred tb.mutex.Unlock()
LocalUnlock(c) ==
    /\ mode = "local"
    /\ callers[c].pc = "unlock"
    /\ mutex' = IF mutex = c THEN 0 ELSE mutex
    /\ callers' = [callers EXCEPT ![c].pc = "done"]
    /\ UNCHANGED <<tokenBuckets, redis>>
    /\ ConcFrame

\* TokenBucketRedis.TryConsume up to now := time.Now().UnixNano()
RedisReadClock(c) ==
    /\ mode = "redis"
    /\ callers[c].pc = "start"
    /\ callers' = [callers EXCEPT ![c].t = now, ![c].pc = "eval"]
    /\ UNCHANGED <<tokenBuckets, redis, mutex>>
    /\ ConcFrame

\* client.Eval: the shard runs the whole script before any other command;
\* the caller's clock reading goes out of scope on return
RedisEval(c) ==
    /\ mode = "redis"
    /\ callers[c].pc = "eval"
    /\ LET r == RedisTryConsume(shardUp[EngineShard], EngTbr, callers[c].n,
                                Capacity, RefillRate, callers[c].t)
       IN  /\ redis' = [redis EXCEPT ![EngineShard] = Store(@, TokenKey(EngineKey), r.data)]
           /\ callers' = [callers EXCEPT
                             ![c].ok = r.ok,
                             ![c].t = 0,
                             ![c].seen = r.data.tokens + (IF r.ok THEN callers[c].n ELSE 0),
                             ![c].pc = "done"]
    /\ UNCHANGED <<tokenBuckets, mutex>>
    /\ ConcFrame

\* the clock advances, staying inside the first period
TickWithinPeriod ==
    /\ now + 1 < RefillRate
    /\ Tick

NextConc ==
    \/ TickWithinPeriod
    \/ \E c \in Callers : LocalLock(c)
    \/ \E c \in Callers : LocalRefill(c)
    \/ \E c \in Callers : LocalCheck(c)
    \/ \E c \in Callers : LocalSubtract(c)
    \/ \E c \in Callers : LocalUnlock(c)
    \/ \E c \in Callers : RedisReadClock(c)
    \/ \E c \in Callers : RedisEval(c)

SpecConc == InitConc /\ [][NextConc]_vars

\* --------------------------------------------- one key over a long time
\* The service is asked for the key "a" now and then while the clock runs
\* past the expiry of what was stored.
InitExpiry ==
    /\ now = 0
    /\ shardUp = [s \in Shards |-> TRUE]
    /\ redis = [s \in Shards |-> EmptyMap]
    /\ tokenBuckets = EmptyMap
    /\ leakyBuckets = EmptyMap
    /\ metrics = NoMetrics
    /\ out = NoOut
    /\ hist = NoHist
    /\ callers = NoCallers
    /\ mutex = 0
    /\ mode = "expiry"

\* the clock advances, beyond the expiry of a record written at MaxTime
ExpiryTick ==
    /\ now < MaxTime + Expiry
    /\ Advance

NextExpiry ==
    \/ ExpiryTick
    \/ ShardDown(GetClientIndex(EngineKey))
    \/ ShardUp(GetClientIndex(EngineKey))
    \/ \E tokens \in {-1, 1, Capacity + 1}, algorithm \in {"token_bucket", "leaky_bucket"} :
          Acquire(EngineKey, tokens, algorithm)

SpecExpiry == InitExpiry /\ [][NextExpiry]_vars

\* ------------------------------------------- concurrent callers of Acquire
\* NumCallers goroutines call Acquire(EngineKey, n, "token_bucket") while the
\* shard of the key goes down and comes back; the two atomic additions of
\* RecordRequest are separate steps of each caller.
InitMetrics ==
    /\ now = 0
    /\ shardUp = [s \in Shards |-> TRUE]
    /\ redis = [s \in Shards |-> EmptyMap]
    /\ tokenBuckets = EmptyMap
    /\ leakyBuckets = EmptyMap
    /\ metrics = NoMetrics
    /\ out = NoOut
    /\ hist = NoHist
    /\ mode = "metrics"
    /\ \E n \in {-1, 1, Capacity} :
          callers = [c \in Callers |->
                        [pc |-> "start", n |-> n, t |-> 0, seen |-> 0, ok |-> FALSE]]
    /\ mutex = 0

\* Acquire up to the call of RecordRequest: the decision of the routed
\* shard's engine, rateLimited = !result
AcquireDecide(c) ==
    /\ callers[c].pc = "start"
    /\ LET s == GetClientIndex(EngineKey)
           r == acquireRedis(redis[s], shardUp[s], EngineKey, callers[c].n,
                             "token_bucket", now)
       IN  /\ redis' = [redis EXCEPT ![s] = r.store]
           /\ callers' = [callers EXCEPT ![c].ok = r.ok, ![c].pc = "total"]
    /\ UNCHANGED <<now, shardUp, tokenBuckets, leakyBuckets, metrics, out, hist, mode, mutex>>

\* atomic.AddInt64(&mc.totalRequests, 1)
AcquireCountTotal(c) ==
    /\ callers[c].pc = "total"
    /\ metrics' = CountTotal(metrics)
    /\ callers' = [callers EXCEPT ![c].pc = "outcome"]
    /\ UNCHANGED <<now, shardUp, redis, tokenBuckets, leakyBuckets, out, hist, mode, mutex>>

\* atomic.AddInt64 on the counter of the outcome; Acquire returns
AcquireCountOutcome(c) ==
    /\ callers[c].pc = "outcome"
    /\ metrics' = CountOutcome(metrics, callers[c].ok, ~callers[c].ok)
    /\ callers' = [callers EXCEPT ![c].pc = "done"]
    /\ UNCHANGED <<now, shardUp, redis, tokenBuckets, leakyBuckets, out, hist, mode, mutex>>

NextMetrics ==
    \/ ShardDown(GetClientIndex(EngineKey))
    \/ ShardUp(GetClientIndex(EngineKey))
    \/ \E c \in Callers : AcquireDecide(c)
    \/ \E c \in Callers : AcquireCountTotal(c)
    \/ \E c \in Callers : AcquireCountOutcome(c)

SpecMetrics == InitMetrics /\ [][NextMetrics]_vars

\* the level of the bucket the callers share
ConcLevel == IF mode = "local" THEN EngTb.tokens
             ELSE IF EngTbr = NoRecord THEN Capacity ELSE EngTbr.tokens

Succeeded == {c \in Callers : callers[c].pc = "done" /\ callers[c].ok}

AllDone == \A c \in Callers : callers[c].pc = "done"

\* C2: NumCallers concurrent TryConsume(n) on a full bucket of capacity C,
\* NumCallers * n > C, no period elapsing: exactly C \div n succeed, the
\* level ends at C - n * (C \div n), never leaves 0..C on the way, and no
\* two callers that consumed did so from the same level; with the bucket's
\* lock and with the shard's script.
C2_ExactlyFloorSucceed ==
    /\ 0 <= ConcLevel /\ ConcLevel <= Capacity
    /\ \A c, d \in Succeeded : c # d => callers[c].seen # callers[d].seen
    /\ AllDone =>
          \A c \in Callers :
             /\ Cardinality(Succeeded) = Capacity \div callers[c].n
             /\ ConcLevel = Capacity - callers[c].n * (Capacity \div callers[c].n)

\* C2's case: every caller has returned, some with the permits and some
\* without, and the request size does not divide what was there
C2_Witness ==
    /\ AllDone
    /\ Succeeded # {}
    /\ Succeeded # Callers
    /\ ConcLevel > 0

\* C11: a request for more than capacity never succeeds in the in-memory
\* engines, for every n > capacity up to the largest int64, and leaves the
\* level within 0..capacity.
C11_OversizedNeverSucceeds ==
    [][ /\ (Did("TryConsume") /\ out'.n > Capacity) =>
              /\ ~out'.localOk
              /\ 0 <= EngTb'.tokens /\ EngTb'.tokens <= Capacity
        /\ (Did("TryAdd") /\ out'.n > Capacity) =>
              /\ ~out'.localOk
              /\ 0 <= EngLb'.queue /\ EngLb'.queue <= Capacity
      ]_vars

\* C12: for every algorithm string other than "leaky_bucket", Acquire has
\* the result and the effect of the same call with "token_bucket" and
\* leaves the leaky bucket state alone, on the shard and in the in-memory
\* fallback engine.
C12_DefaultIsTokenBucket ==
    [][ (Did("Acquire") /\ out'.algorithm # "leaky_bucket") =>
            LET k == out'.key
                s == GetClientIndex(k)
                asToken == acquireRedis(redis[s], shardUp[s], k, out'.n,
                                        "token_bucket", now)
                fb == acquireInMemoryFallback(tokenBuckets, leakyBuckets, k, out'.n,
                                              out'.algorithm, now)
                fbToken == acquireInMemoryFallback(tokenBuckets, leakyBuckets, k, out'.n,
                                                   "token_bucket", now)
            IN  /\ out'.result = asToken.ok
                /\ redis'[s] = asToken.store
                /\ Get(redis'[s], LeakyKey(k)) = Get(redis[s], LeakyKey(k))
                /\ leakyBuckets' = leakyBuckets
                /\ fb = fbToken
                /\ fb.leakyBuckets = leakyBuckets
      ]_vars

\* C12's case: a request naming no known algorithm was admitted from the
\* key's token bucket while the key also had a leaky bucket record
C12_Witness ==
    /\ out.op = "Acquire"
    /\ out.algorithm \notin {"token_bucket", "leaky_bucket"}
    /\ out.result = TRUE
    /\ out.n = 1
    /\ TokenKey(out.key) \in DOMAIN redis[out.index]
    /\ LeakyKey(out.key) \in DOMAIN redis[out.index]

\* ------------------------------------------------------ start of the server
\* main: config.Load reads REDIS_INSTANCES, NewRedisRateLimiterService builds
\* the manager from cfg.Redis.Instances; a caller of the package may also
\* hand the constructor a Config it filled in itself.  Addresses are byte
\* strings over "h", "," and " ".
EnvBytes == {104, 44, 32}

\* the longest REDIS_INSTANCES value tried
MaxEnvLen == 3

\* the values the environment variable may have; the empty one is "unset"
EnvValues == UNION { [1..n -> EnvBytes] : n \in 0..MaxEnvLen }

\* the default of REDIS_INSTANCES: two addresses
DefaultInstances == <<104, 44, 104>>

\* config.getEnv: an empty value gives the default
getEnv(value, defaultValue) == IF value # << >> THEN value ELSE defaultValue

\* strings.Split(s, ","): the fields between the commas, at least one
RECURSIVE Split(_)
Split(s) ==
    IF \A i \in 1..Len(s) : s[i] # 44 THEN <<s>>
    ELSE LET i == CHOOSE j \in 1..Len(s) :
                     s[j] = 44 /\ \A k \in 1..(j-1) : s[k] # 44
         IN  <<SubSeq(s, 1, i - 1)>> \o Split(SubSeq(s, i + 1, Len(s)))

\* strings.TrimSpace
RECURSIVE TrimSpace(_)
TrimSpace(s) ==
    IF s = << >> THEN s
    ELSE IF Head(s) = 32 THEN TrimSpace(Tail(s))
    ELSE IF s[Len(s)] = 32 THEN TrimSpace(SubSeq(s, 1, Len(s) - 1))
    ELSE s

\* Config.loadFromEnv: c.Redis.Instances
loadFromEnv(value) ==
    LET fields == Split(getEnv(value, DefaultInstances))
    IN  [i \in 1..Len(fields) |-> TrimSpace(fields[i])]

\* cfg.Redis.Instances as a caller of the package may set it: nil, or up to
\* NumShards addresses
LiteralInstances == UNION { [1..n -> {<<104>>}] : n \in 0..NumShards }

\* every list of addresses the constructor may be given
InstanceLists == {loadFromEnv(v) : v \in EnvValues} \cup LiteralInstances

\* NewRedisManager: make([]redis.Client, len(instances)), one client each;
\* the clients are the indexes 0 .. len-1
NewRedisManager(instances) == 0 .. (Len(instances) - 1)

\* len(rm.clients) of the manager that was built
LenClients == Cardinality(DOMAIN redis)

\* RedisManager.GetClient for a manager of n clients: the modulo by zero
\* panics (integer divide by zero)
ClientsOf ==
    [n \in 0..(MaxEnvLen + 1) |->
        [userID \in Keys |->
            IF n = 0 THEN [client |-> 0, isNil |-> FALSE, panic |-> TRUE]
            ELSE LET index == HashModLen(KeyHash[userID], n)
                 IN  [client |-> index, isNil |-> FALSE,
                      panic |-> index \notin 0..(n-1)]]]

GetClientOf(userID, n) == ClientsOf[n][userID]

\* NewRedisRateLimiterService(cfg): no check of cfg.Redis.Instances
InitStartup ==
    /\ now = 0
    /\ \E instances \in InstanceLists :
          /\ shardUp = [s \in NewRedisManager(instances) |-> TRUE]
          /\ redis = [s \in NewRedisManager(instances) |-> EmptyMap]
    /\ tokenBuckets = EmptyMap
    /\ leakyBuckets = EmptyMap
    /\ metrics = NoMetrics
    /\ out = NoOut
    /\ hist = NoHist
    /\ callers = NoCallers
    /\ mutex = 0
    /\ mode = "startup"

\* rrs.Acquire on a manager of len(rm.clients) clients: what it leaves on
\* the shards and in the metrics, and what it returns; a panic unwinds
\* Acquire before RecordRequest
acquireOn(shards, up, m, key, tokens, algorithm, t) ==
    LET c == GetClientOf(key, Cardinality(DOMAIN shards))
    IN  IF c.panic
        THEN [redis |-> shards, metrics |-> m, index |-> c.client, up |-> FALSE,
              result |-> FALSE, panic |-> TRUE]
        ELSE LET r == acquireRedis(shards[c.client], up[c.client], key,
                                   tokens, algorithm, t)
             IN  [redis |-> [shards EXCEPT ![c.client] = r.store],
                  metrics |-> RecordRequest(m, r.ok, ~r.ok),
                  index |-> c.client, up |-> up[c.client],
                  result |-> r.ok, panic |-> FALSE]

\* rrs.Acquire called directly
StartupAcquire(key, tokens, algorithm) ==
    /\ metrics.total < MaxRequests
    /\ LET a == acquireOn(redis, shardUp, metrics, key, tokens, algorithm, now)
       IN  /\ redis' = a.redis
           /\ metrics' = a.metrics
           /\ out' = [op |-> "Acquire", key |-> key, n |-> tokens,
                      algorithm |-> algorithm, index |-> a.index,
                      up |-> a.up, result |-> a.result, panic |-> a.panic]
    /\ UNCHANGED <<now, shardUp, tokenBuckets, leakyBuckets, hist, mode, callers, mutex>>

\* AcquireHandler, "Validate and set defaults": the permit count handed to
\* the service
DefaultTokens(tokens) == IF tokens <= 0 THEN 1 ELSE tokens

\* AcquireHandler: the algorithm handed to the service
DefaultAlgorithm(algorithm) == IF algorithm = "" THEN "token_bucket" ELSE algorithm

\* Handlers.AcquireHandler for an authenticated POST: a body that does not
\* decode is answered 400; otherwise the defaults are set, the service is
\* asked and the answer is 200 (allowed) or 429.  A panic in the service
\* ends the request without an answer (code 0).
AcquireHandler(userID, decodes, tokens, algorithm) ==
    /\ metrics.total < MaxRequests
    /\ IF ~decodes
       THEN /\ out' = [op |-> "AcquireHandler", key |-> userID, tokens |-> tokens,
                       algorithm |-> algorithm, code |-> 400, allowed |-> FALSE,
                       asked |-> 0, panic |-> FALSE]
            /\ UNCHANGED <<redis, metrics>>
       ELSE LET n == DefaultTokens(tokens)
                a == acquireOn(redis, shardUp, metrics, userID,
                               n, DefaultAlgorithm(algorithm), now)
            IN  /\ redis' = a.redis
                /\ metrics' = a.metrics
                /\ out' = [op |-> "AcquireHandler", key |-> userID,
                           tokens |-> tokens, algorithm |-> algorithm,
                           code |-> IF a.panic THEN 0
                                    ELSE IF a.result THEN 200 ELSE 429,
                           allowed |-> a.result, asked |-> n,
                           panic |-> a.panic]
    /\ UNCHANGED <<now, shardUp, tokenBuckets, leakyBuckets, hist, mode, callers, mutex>>

\* the bodies posted to /acquire: one that is not JSON, and negative, zero
\* and single permit counts with and without an algorithm
HandlerInputs ==
    {<<FALSE, 0, "">>} \cup ({TRUE} \X {-1, 0, 1} \X {"", "leaky_bucket"})

\* the decimal digits of a positive number, as bytes
RECURSIVE Decimal(_)
Decimal(n) == IF n < 10 THEN <<48 + n>> ELSE Decimal(n \div 10) \o <<48 + (n % 10)>>

\* fmt.Sprintf("redis-%d", i+1)
HealthName(i) == <<114, 101, 100, 105, 115, 45>> \o Decimal(i + 1)

\* a probe that reports what the shard before it answered
PingPrevious(up, i) == IF i = 0 THEN up[i] ELSE up[i - 1]

\* client.Ping on shard i, bounded by the 2 s context: err == nil
Ping(up, i) == up[i]

\* RedisManager.GetHealthStatus: one Ping per client, in order
GetHealthStatus ==
    /\ out' = [op |-> "GetHealthStatus",
               status |-> [name \in {HealthName(i) : i \in DOMAIN shardUp} |->
                              LET i == CHOOSE j \in DOMAIN shardUp : HealthName(j) = name
                              IN  Ping(shardUp, i)]]
    /\ UNCHANGED <<now, shardUp, redis, tokenBuckets, leakyBuckets, metrics, hist, mode, callers, mutex>>

\* the clock advances while the server runs
StartupTick ==
    /\ now < Grain
    /\ Advance

NextStartup ==
    \/ StartupTick
    \/ GetHealthStatus
    \/ \E s \in DOMAIN shardUp : ShardDown(s)
    \/ \E s \in DOMAIN shardUp : ShardUp(s)
    \/ \E key \in {<<97>>, <<102>>} : StartupAcquire(key, 1, "token_bucket")
    \/ \E i \in HandlerInputs : AcquireHandler(<<97>>, i[1], i[2], i[3])

SpecStartup == InitStartup /\ [][NextStartup]_vars

\* ------------------------------------------------------------------- C13
\* the detail block of the algorithm a status response names as primary
PrimaryDetail(r) ==
    IF r.algorithm = "leaky_bucket" THEN r.leakyBucketStatus ELSE r.tokenBucketStatus

\* the summary fields of a status response are those of the detail block d
SummaryOf(r, d) ==
    /\ r.tokensLeft = d.tokensLeft
    /\ r.capacity = d.capacity
    /\ r.refillRate = d.refillRate
    /\ r.nextRefillTime = d.nextRefillTime
    /\ r.isBlocked = d.isBlocked

\* the status response follows the selection rule for the primary algorithm
PrimarySelected(r) ==
    LET tb == r.tokenBucketStatus
        lb == r.leakyBucketStatus
        hasT == tb # NoDetail
        hasL == lb # NoDetail
    IN  /\ (hasT /\ ~hasL) => r.algorithm = "token_bucket"
        /\ (hasL /\ ~hasT) => r.algorithm = "leaky_bucket"
        /\ (hasT /\ hasL) =>
              /\ (tb.tokensLeft = tb.capacity /\ lb.tokensLeft = lb.capacity)
                    => r.algorithm = "token_bucket"
              /\ (tb.tokensLeft < tb.capacity \/ lb.tokensLeft < lb.capacity)
                    => /\ PrimaryDetail(r) # NoDetail
                       /\ PrimaryDetail(r).tokensLeft < PrimaryDetail(r).capacity
        /\ (hasT \/ hasL) =>
              /\ PrimaryDetail(r) # NoDetail
              /\ PrimaryDetail(r).algorithm = r.algorithm
              /\ PrimaryDetail(r).hasState
              /\ SummaryOf(r, PrimaryDetail(r))
        /\ (~hasT /\ ~hasL) =>
              /\ r.algorithm = "token_bucket"
              /\ r.tokensLeft = Capacity
              /\ r.capacity = Capacity
              /\ r.refillRate = RefillRate
              /\ r.isBlocked = FALSE

\* C13: a status response attaches a detail block exactly for the algorithms
\* whose record the service finds for the key; the only algorithm with state
\* is primary, of two with state one that is not at full capacity is primary,
\* the token bucket when both are full; the summary fields are those of the
\* primary's detail; with no state the summary is the token bucket at the
\* configured capacity and refill rate, not blocked, with no detail.
C13_PrimarySelection ==
    [][\A key \in Keys :
         (Did("GetStatus") /\ out'.key = key) =>
             LET s == GetClient(key).client
             IN  /\ (out'.tokenBucketStatus # NoDetail)
                       <=> (shardUp[s] /\ TokenKey(key) \in DOMAIN redis[s])
                 /\ (out'.leakyBucketStatus # NoDetail)
                       <=> (shardUp[s] /\ LeakyKey(key) \in DOMAIN redis[s])
                 /\ PrimarySelected(out')]_vars

\* both algorithms have state, the token bucket is full, the leaky bucket is
\* not, and the response names the leaky bucket
C13_Witness ==
    /\ out.op = "GetStatus"
    /\ out.tokenBucketStatus # NoDetail
    /\ out.leakyBucketStatus # NoDetail
    /\ out.tokenBucketStatus.tokensLeft = out.tokenBucketStatus.capacity
    /\ out.leakyBucketStatus.tokensLeft < out.leakyBucketStatus.capacity
    /\ out.algorithm = "leaky_bucket"
    /\ out.tokensLeft = out.leakyBucketStatus.tokensLeft

\* ------------------------------------------------------------------- C14
\* C14: a status request for a key whose shard cannot be reached reports the
\* key's in-memory bucket: right after an Acquire that was answered while the
\* shard was unreachable, and with the shard still unreachable, GetStatus
\* attaches the detail (hasState true) of the algorithm that Acquire used.
C14_StatusFromFallbackWhenUnreachable ==
    [][ (/\ out.op = "Acquire"
         /\ ~out.panic
         /\ out.n >= 0
         /\ ~out.up
         /\ Did("GetStatus")
         /\ out'.key = out.key
         /\ ~shardUp[GetClientIndex(out.key)]) =>
            IF out.algorithm = "leaky_bucket"
            THEN out'.leakyBucketStatus # NoDetail
            ELSE out'.tokenBucketStatus # NoDetail
      ]_vars

\* ------------------------------------------------------------------- C15
\* caller keys of every length up to 2 over two bytes, the empty key included
NameKeys == UNION { [1..n -> {97, 108}] : n \in 0..2 }

\* no token bucket name is a leaky bucket name, and different keys have
\* different names
NamesDistinct ==
    \A k1 \in NameKeys \cup Keys, k2 \in NameKeys \cup Keys :
        /\ TokenKey(k1) # LeakyKey(k2)
        /\ k1 # k2 => (TokenKey(k1) # TokenKey(k2) /\ LeakyKey(k1) # LeakyKey(k2))

\* the record name an Acquire for (key, algorithm) works on
NameOf(key, algorithm) ==
    IF algorithm = "leaky_bucket" THEN LeakyKey(key) ELSE TokenKey(key)

\* C15: an Acquire for (key, algorithm) decides from the record of that key
\* and algorithm alone, and leaves every other record on every shard (the
\* other algorithm of the key, every other key) and both in-memory maps as
\* they were; record names of different keys or algorithms never coincide.
C15_StateSpacesIndependent ==
    [][ (Did("Acquire") /\ ~out'.panic) =>
            LET k == out'.key
                s == GetClientIndex(k)
                name == NameOf(k, out'.algorithm)
                own == IF name \in DOMAIN redis[s]
                       THEN Put(EmptyMap, name, redis[s][name]) ELSE EmptyMap
                r == acquireRedis(own, shardUp[s], k, out'.n, out'.algorithm, now)
            IN  /\ NamesDistinct
                /\ out'.result = r.ok
                /\ Get(redis'[s], name) = Get(r.store, name)
                /\ \A u \in Shards, nm \in RedisKeys :
                      (u # s \/ nm # name) => Get(redis'[u], nm) = Get(redis[u], nm)
                /\ \A u \in Shards : DOMAIN redis'[u] \subseteq RedisKeys
                /\ tokenBuckets' = tokenBuckets
                /\ leakyBuckets' = leakyBuckets
      ]_vars

\* an admitted leaky bucket request for "a" while the shard of "a" also
\* holds the token bucket record of another key
C15_Witness ==
    /\ out.op = "Acquire"
    /\ out.key = <<97>>
    /\ out.algorithm = "leaky_bucket"
    /\ out.n = 1
    /\ out.result
    /\ GetClientIndex(<<98>>) = GetClientIndex(<<97>>)
    /\ TokenKey(<<98>>) \in DOMAIN redis[GetClientIndex(<<97>>)]
    /\ LeakyKey(<<97>>) \in DOMAIN redis[GetClientIndex(<<97>>)]

\* ------------------------------------------------------------------- C16
\* C16: an Acquire of 0..capacity units for a key whose stored record of the
\* requested algorithm cannot be decoded, on a reachable shard, is served as
\* on a fresh bucket: it succeeds and leaves a valid record in its place.
C16_CorruptRecordIsFreshBucket ==
    [][ (/\ Did("Acquire")
         /\ ~out'.panic
         /\ out'.n >= 0
         /\ out'.n <= Capacity
         /\ shardUp[GetClientIndex(out'.key)]
         /\ Get(redis[GetClientIndex(out'.key)],
                NameOf(out'.key, out'.algorithm)).algorithm = "corrupt") =>
            /\ out'.result
            /\ Get(redis'[GetClientIndex(out'.key)],
                   NameOf(out'.key, out'.algorithm)).algorithm # "corrupt"
      ]_vars

\* ------------------------------------------------------------------- C17
\* callers whose request has been added to the total
CountedTotal == {c \in Callers : callers[c].pc \in {"outcome", "done"}}

\* callers whose Acquire has returned
Returned == {c \in Callers : callers[c].pc = "done"}

\* C17: every Acquire, admitted, denied or failed on the shard, adds one to
\* the total and one to exactly one outcome counter: at every moment the
\* total is the number of calls that passed the first addition and the
\* outcome counters sum to the number of calls that returned, the successful
\* counter being the number admitted; once all concurrent calls returned,
\* total = number of calls = successful + rate limited + errors.
C17_OneRecordPerAcquire ==
    /\ metrics.total = Cardinality(CountedTotal)
    /\ metrics.successful + metrics.rateLimited + metrics.errors = Cardinality(Returned)
    /\ metrics.successful = Cardinality({c \in Returned : callers[c].ok})
    /\ (Returned = Callers) =>
          /\ metrics.total = NumCallers
          /\ metrics.total = metrics.successful + metrics.rateLimited + metrics.errors

\* every concurrent call returned; some were admitted, some denied
C17_Witness ==
    /\ mode = "metrics"
    /\ Returned = Callers
    /\ metrics.total = NumCallers
    /\ metrics.successful >= 1
    /\ metrics.rateLimited >= 1

\* ------------------------------------------------------------------- C18
\* C18 as stated: a record disappears only after a full expiry interval
\* without an Acquire for its key and algorithm; so the record that an
\* Acquire for (key, algorithm) has just been answered about is still there
\* after the next tick of the clock.
C18_RecordOutlivesAcquire ==
    [][ (/\ out.op = "Acquire"
         /\ ~out.panic
         /\ NameOf(out.key, out.algorithm) \in DOMAIN redis[GetClientIndex(out.key)]
         /\ now' = now + 1) =>
            NameOf(out.key, out.algorithm) \in DOMAIN redis'[GetClientIndex(out.key)]
      ]_vars

\* the Acquire step runs the script to its write: the shard answers and the
\* request is not negative
ScriptWrites(key, tokens, algorithm) ==
    /\ tokens >= 0
    /\ shardUp[GetClientIndex(key)]

\* C18, amended: every stored record has an expiry in the future, at most a
\* full expiry away; every Acquire whose script reaches its write, admitted
\* or rejected, leaves the record with the full expiry; and a record
\* disappears only at the instant of its expiry, that is a full expiry after
\* the last write to it.
C18_ExpiryResetOnWrite ==
    /\ [](\A s \in Shards : \A nm \in DOMAIN redis[s] :
              /\ redis[s][nm].expire_at > now
              /\ redis[s][nm].expire_at <= now + Expiry)
    /\ [][ /\ (Did("Acquire") /\ ~out'.panic
                  /\ ScriptWrites(out'.key, out'.n, out'.algorithm)) =>
              LET nm == NameOf(out'.key, out'.algorithm)
                  s == GetClientIndex(out'.key)
              IN  /\ nm \in DOMAIN redis'[s]
                  /\ redis'[s][nm].expire_at = now + Expiry
           /\ \A s \in Shards : \A nm \in DOMAIN redis[s] :
                 nm \notin DOMAIN redis'[s] =>
                    /\ now' = now + 1
                    /\ redis[s][nm].expire_at = now'
         ]_vars

\* a rejected request has just rewritten a record made at least a period
\* earlier, which now expires a full expiry from this instant
C18_Witness ==
    /\ mode = "expiry"
    /\ out.op = "Acquire"
    /\ out.algorithm = "token_bucket"
    /\ out.n > Capacity
    /\ ~out.result
    /\ out.up
    /\ now >= RefillRate
    /\ TokenKey(out.key) \in DOMAIN redis[GetClientIndex(out.key)]
    /\ redis[GetClientIndex(out.key)][TokenKey(out.key)].algorithm = "token_bucket"
    /\ redis[GetClientIndex(out.key)][TokenKey(out.key)].tokens < Capacity
    /\ redis[GetClientIndex(out.key)][TokenKey(out.key)].expire_at = now + Expiry

\* ------------------------------------------------------------------- C19
\* an operation at time t leaves the anchor new where it was old (had: there
\* was one): not earlier, a whole number of periods later, and when set or
\* moved not later than t
AnchorDiscipline(had, old, new, t) ==
    /\ had => new >= old
    /\ had => (new - old) % RefillRate = 0
    /\ (~had \/ new # old) => new <= t

\* C19: in every bucket, in memory and on the shard, the anchor time
\* (lastRefill, lastLeak) never decreases, changes only by whole periods, and
\* is never later than the time of the operation that set or moved it;
\* a rejected operation moves it like any other, never to the current time
\* as such.
C19_AnchorDiscipline ==
    [][ now' = now =>
          /\ (EngineKey \in DOMAIN tokenBuckets') =>
                AnchorDiscipline(EngineKey \in DOMAIN tokenBuckets,
                                 IF EngineKey \in DOMAIN tokenBuckets
                                 THEN EngTb.lastRefill ELSE 0,
                                 EngTb'.lastRefill, now)
          /\ (EngineKey \in DOMAIN leakyBuckets') =>
                AnchorDiscipline(EngineKey \in DOMAIN leakyBuckets,
                                 IF EngineKey \in DOMAIN leakyBuckets
                                 THEN EngLb.lastLeak ELSE 0,
                                 EngLb'.lastLeak, now)
          /\ (EngTbr' # NoRecord) =>
                AnchorDiscipline(EngTbr # NoRecord,
                                 IF EngTbr # NoRecord THEN EngTbr.last_refill_ns ELSE 0,
                                 EngTbr'.last_refill_ns, now)
          /\ (EngLbr' # NoRecord) =>
                AnchorDiscipline(EngLbr # NoRecord,
                                 IF EngLbr # NoRecord THEN EngLbr.last_leak_ns ELSE 0,
                                 EngLbr'.last_leak_ns, now)
      ]_vars

\* ------------------------------------------------------------------- C20
\* C20: the first operation on a bucket that does not exist yet finds a full
\* token bucket and an empty leaky bucket: a first request of 0..capacity
\* units is admitted and leaves capacity - n tokens (n queued units), in the
\* in-memory engine and in the Redis engine; and after a first request for
\* exactly capacity, a request for 1 at the same instant is rejected.
C20_LazyCreationFullHeadroom ==
    [][ /\ (Did("TryConsume") /\ 0 <= out'.n /\ out'.n <= Capacity) =>
              /\ out'.localNew => (out'.localOk /\ EngTb'.tokens = Capacity - out'.n)
              /\ out'.remoteNew => (out'.remoteOk /\ EngTbr'.tokens = Capacity - out'.n)
        /\ (Did("TryAdd") /\ 0 <= out'.n /\ out'.n <= Capacity) =>
              /\ out'.localNew => (out'.localOk /\ EngLb'.queue = out'.n)
              /\ out'.remoteNew => (out'.remoteOk /\ EngLbr'.queue_length = out'.n)
        /\ (out.op = "TryConsume" /\ out.n = Capacity
               /\ Did("TryConsume") /\ out'.n = 1) =>
              /\ out.localNew => (out.localOk /\ ~out'.localOk)
              /\ out.remoteNew => (out.remoteOk /\ ~out'.remoteOk)
        /\ (out.op = "TryAdd" /\ out.n = Capacity
               /\ Did("TryAdd") /\ out'.n = 1) =>
              /\ out.localNew => (out.localOk /\ ~out'.localOk)
              /\ out.remoteNew => (out.remoteOk /\ ~out'.remoteOk)
      ]_vars

\* the first request on a key asked for exactly capacity and got it, from
\* both engines, some time after the start
C20_Witness ==
    /\ out.op = "TryConsume"
    /\ out.n = Capacity
    /\ out.localNew /\ out.remoteNew
    /\ out.localOk /\ out.remoteOk
    /\ EngTb.tokens = 0
    /\ EngTbr.tokens = 0
    /\ now > 0

\* ------------------------------------------------------------------- C21
\* C21: a list of zero shards is refused when the server starts: the service
\* that runs has at least one shard, and no Acquire ever meets the modulo by
\* a shard count of zero.
C21_NoServiceWithoutShards ==
    /\ LenClients >= 1
    /\ out.op = "Acquire" => ~out.panic

\* ------------------------------- concurrent GetStatus, one in-memory bucket
\* NumReaders goroutines call GetStatus on the same in-memory bucket, the
\* token bucket (mode "token_bucket") or the leaky bucket (mode
\* "leaky_bucket").  RLock admits them all together; refill() and leak()
\* then run in each of them, one Go statement per step.  `mutex` counts the
\* holders of the read lock, `hist` keeps the bucket as it was at the start.
Readers == 1..NumReaders

InitStatus ==
    /\ now = 0
    /\ shardUp = [s \in Shards |-> TRUE]
    /\ redis = [s \in Shards |-> EmptyMap]
    /\ metrics = NoMetrics
    /\ out = NoOut
    /\ mode \in {"token_bucket", "leaky_bucket"}
    /\ \E level \in 0..Capacity :
          /\ tokenBuckets =
                IF mode = "token_bucket"
                THEN Put(EmptyMap, EngineKey,
                         TryConsume(NewTokenBucket(Capacity, RefillRate, 0),
                                    Capacity - level, 0).bucket)
                ELSE EmptyMap
          /\ leakyBuckets =
                IF mode = "leaky_bucket"
                THEN Put(EmptyMap, EngineKey,
                         TryAdd(NewLeakyBucket(Capacity, RefillRate, 0), level, 0).bucket)
                ELSE EmptyMap
          /\ hist = [valid |-> TRUE, at |-> 0, level |-> level, anchor |-> 0]
    /\ callers = [c \in Readers |-> [pc |-> "start", periods |-> 0, take |-> 0, seen |-> 0]]
    /\ mutex = 0

StatusFrame == UNCHANGED <<now, shardUp, redis, metrics, out, hist, mode>>

\* tb.mutex.RLock() / lb.mutex.RLock(): no writer holds the lock here, so
\* every reader is admitted
StatusRLock(c) ==
    /\ callers[c].pc = "start"
    /\ mutex' = mutex + 1
    /\ callers' = [callers EXCEPT ![c].pc = "elapsed"]
    /\ UNCHANGED <<tokenBuckets, leakyBuckets>>
    /\ StatusFrame

\* refill(): now := time.Now(); elapsed := now.Sub(tb.lastRefill);
\* refillPeriods := elapsed / refillRate; if refillPeriods > 0
TokenElapsed(c) ==
    /\ mode = "token_bucket"
    /\ callers[c].pc = "elapsed"
    /\ LET tb == tokenBuckets[EngineKey]
           refillPeriods == GoDiv(now - tb.lastRefill, tb.refillRate)
       IN  callers' = [callers EXCEPT
                          ![c].periods = refillPeriods,
                          ![c].pc = IF refillPeriods > 0 THEN "add" ELSE "return"]
    /\ UNCHANGED <<tokenBuckets, leakyBuckets, mutex>>
    /\ StatusFrame

\* tb.tokens = min(tb.capacity, tb.tokens+tokensToAdd)
TokenAdd(c) ==
    /\ mode = "token_bucket"
    /\ callers[c].pc = "add"
    /\ tokenBuckets' = [tokenBuckets EXCEPT
                           ![EngineKey].tokens =
                               min(tokenBuckets[EngineKey].capacity,
                                   Wrap(@ + callers[c].periods))]
    /\ callers' = [callers EXCEPT ![c].pc = "anchor"]
    /\ UNCHANGED <<leakyBuckets, mutex>>
    /\ StatusFrame

\* tb.lastRefill = tb.lastRefill.Add(actualTimeProcessed)
TokenAnchor(c) ==
    /\ mode = "token_bucket"
    /\ callers[c].pc = "anchor"
    /\ tokenBuckets' = [tokenBuckets EXCEPT
                           ![EngineKey].lastRefill =
                               @ + callers[c].periods * tokenBuckets[EngineKey].refillRate]
    /\ callers' = [callers EXCEPT ![c].pc = "return"]
    /\ UNCHANGED <<leakyBuckets, mutex>>
    /\ StatusFrame

\* leak(): now := time.Now(); elapsed := now.Sub(lb.lastLeak);
\* leakPeriods := int64(elapsed / lb.leakRate);
\* if leakPeriods > 0 && lb.queue > 0
LeakyElapsed(c) ==
    /\ mode = "leaky_bucket"
    /\ callers[c].pc = "elapsed"
    /\ LET lb == leakyBuckets[EngineKey]
           leakPeriods == GoDiv(now - lb.lastLeak, lb.leakRate)
       IN  callers' = [callers EXCEPT
                          ![c].periods = leakPeriods,
                          ![c].pc = IF leakPeriods > 0 /\ lb.queue > 0
                                    THEN "min" ELSE "return"]
    /\ UNCHANGED <<tokenBuckets, leakyBuckets, mutex>>
    /\ StatusFrame

\* requestsToLeak := min(leakPeriods, lb.queue)
LeakyMin(c) ==
    /\ mode = "leaky_bucket"
    /\ callers[c].pc = "min"
    /\ callers' = [callers EXCEPT
                      ![c].take = min(callers[c].periods, leakyBuckets[EngineKey].queue),
                      ![c].pc = "take"]
    /\ UNCHANGED <<tokenBuckets, leakyBuckets, mutex>>
    /\ StatusFrame

\* lb.queue -= requestsToLeak
LeakyTake(c) ==
    /\ mode = "leaky_bucket"
    /\ callers[c].pc = "take"
    /\ leakyBuckets' = [leakyBuckets EXCEPT
                           ![EngineKey].queue = Wrap(@ - callers[c].take)]
    /\ callers' = [callers EXCEPT ![c].pc = "anchor"]
    /\ UNCHANGED <<tokenBuckets, mutex>>
    /\ StatusFrame

\* lb.lastLeak = lb.lastLeak.Add(time.Duration(requestsToLeak) * lb.leakRate)
LeakyAnchor(c) ==
    /\ mode = "leaky_bucket"
    /\ callers[c].pc = "anchor"
    /\ leakyBuckets' = [leakyBuckets EXCEPT
                           ![EngineKey].lastLeak =
                               @ + callers[c].take * leakyBuckets[EngineKey].leakRate]
    /\ callers' = [callers EXCEPT ![c].pc = "return"]
    /\ UNCHANGED <<tokenBuckets, mutex>>
    /\ StatusFrame

\* return tb.tokens, ... / return lb.queue, ..., and the deferred RUnlock()
StatusReturn(c) ==
    /\ callers[c].pc = "return"
    /\ callers' = [callers EXCEPT
                      ![c].seen = IF mode = "token_bucket"
                                  THEN tokenBuckets[EngineKey].tokens
                                  ELSE leakyBuckets[EngineKey].queue,
                      ![c].pc = "done"]
    /\ mutex' = mutex - 1
    /\ UNCHANGED <<tokenBuckets, leakyBuckets>>
    /\ StatusFrame

StatusTick ==
    /\ now < MaxTime
    /\ Tick

NextStatus ==
    \/ StatusTick
    \/ \E c \in Readers : StatusRLock(c)
    \/ \E c \in Readers : TokenElapsed(c)
    \/ \E c \in Readers : TokenAdd(c)
    \/ \E c \in Readers : TokenAnchor(c)
    \/ \E c \in Readers : LeakyElapsed(c)
    \/ \E c \in Readers : LeakyMin(c)
    \/ \E c \in Readers : LeakyTake(c)
    \/ \E c \in Readers : LeakyAnchor(c)
    \/ \E c \in Readers : StatusReturn(c)

SpecStatus == InitStatus /\ [][NextStatus]_vars

\* ------------------------------------------- requests around an outage
\* Single-permit requests for the keys "a" and "f" while their shards go
\* down and come back.  Fewer requests are made than a bucket holds, so a
\* request is refused only when its shard does not answer.
OutageInputs == {<<97>>, <<102>>} \X {1} \X {"token_bucket", "leaky_bucket"}

NextOutage ==
    \/ ServiceTick
    \/ \E s \in Shards : ShardDown(s)
    \/ \E s \in Shards : ShardUp(s)
    \/ \E i \in OutageInputs : Acquire(i[1], i[2], i[3])

SpecOutage == Init /\ [][NextOutage]_vars

\* ------------------------------------------------ Acquire, step by step
\* NumReaders goroutines each call rrs.Acquire(key, 1, "token_bucket") on a
\* service built from a list of instances, while shards stop answering and
\* answer again.  A call is routed, waits for the shard's Eval and records
\* the outcome.  TryConsume passes context.Background() and NewRedisManager
\* sets no timeout in redis.Options, so the wait for a silent shard ends when
\* the client library gives up by its own defaults.  No lock is taken on
\* this path: `mutex` stays free.
InitWait ==
    /\ now = 0
    /\ \E instances \in LiteralInstances :
          /\ shardUp = [s \in NewRedisManager(instances) |-> TRUE]
          /\ redis = [s \in NewRedisManager(instances) |-> EmptyMap]
    /\ tokenBuckets = EmptyMap
    /\ leakyBuckets = EmptyMap
    /\ metrics = NoMetrics
    /\ out = NoOut
    /\ hist = NoHist
    /\ mode = "wait"
    /\ callers \in [Readers -> [pc : {"start"}, key : {<<97>>, <<102>>},
                                index : {0}, result : {FALSE}]]
    /\ mutex = 0

WaitFrame == UNCHANGED <<now, shardUp, tokenBuckets, leakyBuckets, out, hist, mode, mutex>>

\* client := rrs.redisManager.GetClient(key): the index expression panics on
\* a manager without clients, and the panic unwinds Acquire
AcquireRoute(c) ==
    /\ callers[c].pc = "start"
    /\ LET client == GetClientOf(callers[c].key, LenClients)
       IN  callers' = [callers EXCEPT
                          ![c].index = client.client,
                          ![c].pc = IF client.panic THEN "panicked" ELSE "eval"]
    /\ UNCHANGED <<redis, metrics>>
    /\ WaitFrame

\* tbr.client.Eval(ctx, luaScript, ...) answered by the shard
EvalAnswered(c) ==
    /\ callers[c].pc = "eval"
    /\ shardUp[callers[c].index]
    /\ LET s == callers[c].index
           r == acquireRedis(redis[s], TRUE, callers[c].key, 1, "token_bucket", now)
       IN  /\ redis' = [redis EXCEPT ![s] = r.store]
           /\ callers' = [callers EXCEPT ![c].result = r.ok, ![c].pc = "record"]
    /\ UNCHANGED metrics
    /\ WaitFrame

\* Eval on a shard that does not answer: err != nil once the client gives
\* up, and TryConsume returns false
EvalGivenUp(c) ==
    /\ callers[c].pc = "eval"
    /\ ~shardUp[callers[c].index]
    /\ callers' = [callers EXCEPT ![c].result = FALSE, ![c].pc = "record"]
    /\ UNCHANGED <<redis, metrics>>
    /\ WaitFrame

\* rrs.metrics.RecordRequest(result, !result); return result
AcquireReturn(c) ==
    /\ callers[c].pc = "record"
    /\ metrics' = RecordRequest(metrics, callers[c].result, ~callers[c].result)
    /\ callers' = [callers EXCEPT ![c].pc = "done"]
    /\ UNCHANGED redis
    /\ WaitFrame

\* the steps of one goroutine
CallerStep(c) ==
    \/ AcquireRoute(c)
    \/ EvalAnswered(c)
    \/ EvalGivenUp(c)
    \/ AcquireReturn(c)

NextWait ==
    \/ \E s \in DOMAIN shardUp : ShardDown(s)
    \/ \E s \in DOMAIN shardUp : ShardUp(s)
    \/ \E c \in Readers : AcquireRoute(c)
    \/ \E c \in Readers : EvalAnswered(c)
    \/ \E c \in Readers : EvalGivenUp(c)
    \/ \E c \in Readers : AcquireReturn(c)

\* every goroutine that can take a step is scheduled in the end
SpecWait == InitWait /\ [][NextWait]_vars /\ \A c \in Readers : WF_vars(CallerStep(c))

\* ------------------------------------------------------------------- C22
\* C22: a request posted to /acquire with a negative permit count is
\* answered as a rejection, and no record and no bucket of the key changes.
C22_NegativeRejectedAtEntry ==
    [][ (Did("AcquireHandler") /\ out'.tokens < 0) =>
            /\ ~out'.allowed
            /\ out'.code # 200
            /\ redis' = redis
            /\ tokenBuckets' = tokenBuckets
            /\ leakyBuckets' = leakyBuckets
      ]_vars

\* ------------------------------------------------------------------- C23
\* whether rrs.Acquire(key, 1, algorithm), called in the present state,
\* returns false
WouldDeny(key, algorithm) ==
    LET s == GetClient(key).client
    IN  ~acquireRedis(redis[s], shardUp[s], key, 1, algorithm, now).ok

\* the stored value of the key for one algorithm, and whether it decodes
RecordOf(key, algorithm) ==
    Get(redis[GetClient(key).client],
        IF algorithm = "leaky_bucket" THEN LeakyKey(key) ELSE TokenKey(key))

Readable(key) ==
    /\ RecordOf(key, "token_bucket").algorithm # "corrupt"
    /\ RecordOf(key, "leaky_bucket").algorithm # "corrupt"

\* the token level and the queue length of the key as the shard's script
\* computes them at the present instant; -1 when the script cannot decode
\* the value
LevelNow(key) ==
    LET data == RecordOf(key, "token_bucket")
    IN  IF data.algorithm = "corrupt" THEN -1
        ELSE TokenScript(data, 0, Capacity, RefillRate, now).data.tokens

QueueNow(key) ==
    LET data == RecordOf(key, "leaky_bucket")
    IN  IF data.algorithm = "corrupt" THEN -1
        ELSE LeakyScript(data, 0, Capacity, RefillRate, now).data.queue_length

\* what C23 says of one GetStatus answer
StatusView(key, answer) ==
    /\ answer.tokenBucketStatus # NoDetail =>
          /\ answer.tokenBucketStatus.tokensLeft = LevelNow(key)
          /\ answer.tokenBucketStatus.isBlocked <=> (LevelNow(key) = 0)
          /\ answer.tokenBucketStatus.isBlocked <=> WouldDeny(key, "token_bucket")
    /\ answer.leakyBucketStatus # NoDetail =>
          /\ answer.leakyBucketStatus.tokensLeft = Capacity - QueueNow(key)
          /\ answer.leakyBucketStatus.isBlocked <=> (QueueNow(key) >= Capacity)
          /\ answer.leakyBucketStatus.isBlocked <=> WouldDeny(key, "leaky_bucket")
    /\ answer.isBlocked <=> WouldDeny(key, answer.algorithm)

\* C23: GetStatus reports for the leaky bucket tokensLeft = capacity - queue
\* length and isBlocked = (queue length >= capacity), for the token bucket
\* tokensLeft = level and isBlocked = (level = 0), and isBlocked is true
\* exactly when Acquire(key, 1) at the same instant would be denied.
C23_BlockedIffAcquireDenied ==
    [][ Did("GetStatus") => StatusView(out'.key, out') ]_vars

\* ------------------------------------------------------------------- C24
\* C24: the next-refill (next-leak) time that GetStatus reports is never
\* before the instant of the query, for the in-memory bucket and for the
\* shard-held record, whatever the bucket's state and however long it idled.
C24_NextRefillNotInPast ==
    /\ out.op = "TokenStatus" =>
          /\ out.local.nextRefill >= now
          /\ out.remote.nextRefill >= now
    /\ out.op = "LeakyStatus" =>
          /\ out.local.nextLeak >= now
          /\ out.remote.nextLeak >= now

\* ------------------------------------------------------------------- C25
\* the level one refill gives the bucket of the start by the present instant
SingleRefill == min(Capacity, hist.level + GoDiv(now - hist.anchor, RefillRate))

\* C25: while goroutines call GetStatus on one in-memory bucket together,
\* the refill (the drain) is applied at most once: the token level never
\* exceeds what a single refill gives, and the queue length is never
\* negative.
C25_ConcurrentStatusSafe ==
    /\ mode = "token_bucket" => tokenBuckets[EngineKey].tokens <= SingleRefill
    /\ mode = "leaky_bucket" => leakyBuckets[EngineKey].queue >= 0

\* ------------------------------------------------------------------- C26
\* One call seen from outside: the bucket had `level` tokens and anchor
\* `anchor`, the call took `consumed` tokens and left `level2` and
\* `anchor2`; `applied` tells whether the call got as far as the refill.
\* The anchor moves by whole periods only, by all of those elapsed when the
\* refill ran, and below capacity the tokens added are the periods the
\* anchor moved by.  Summed over the calls between t0 and t1 this is the
\* number of whole periods since the first anchor at t1 minus that at t0.
RefillByAnchor(level, anchor, level2, anchor2, consumed, applied) ==
    LET elapsedPeriods == GoDiv(now - anchor, RefillRate)
        moved == anchor2 - anchor
    IN  /\ moved >= 0
        /\ moved % RefillRate = 0
        /\ applied => moved = elapsedPeriods * RefillRate
        /\ level + elapsedPeriods <= Capacity =>
              level2 + consumed = level + (moved \div RefillRate)

\* the in-memory bucket and the shard's record of the key before a call; a
\* call that finds none starts from a full bucket anchored at the call
LocalBefore ==
    IF EngineKey \in DOMAIN tokenBuckets THEN tokenBuckets[EngineKey]
    ELSE NewTokenBucket(Capacity, RefillRate, now)

RemoteBefore ==
    IF EngTbr # NoRecord THEN EngTbr
    ELSE [tokens |-> Capacity, last_refill_ns |-> now]

\* C26: the refill does not depend on how often the bucket is called: below
\* capacity, the tokens added between two instants are the whole periods
\* since the anchor at the later instant minus those at the earlier one,
\* whatever TryConsume and GetStatus calls lie between; no fraction of a
\* period is dropped, in the in-memory bucket and in the shard's script.
C26_RefillIndependentOfCalls ==
    [][ /\ Did("TryConsume") =>
              /\ RefillByAnchor(LocalBefore.tokens, LocalBefore.lastRefill,
                                tokenBuckets'[EngineKey].tokens,
                                tokenBuckets'[EngineKey].lastRefill,
                                IF out'.localOk THEN out'.n ELSE 0, out'.n >= 0)
              /\ out'.n >= 0 =>
                    RefillByAnchor(RemoteBefore.tokens, RemoteBefore.last_refill_ns,
                                   EngTbr'.tokens, EngTbr'.last_refill_ns,
                                   IF out'.remoteOk THEN out'.n ELSE 0, TRUE)
        /\ Did("TokenStatus") =>
              RefillByAnchor(tokenBuckets[EngineKey].tokens,
                             tokenBuckets[EngineKey].lastRefill,
                             tokenBuckets'[EngineKey].tokens,
                             tokenBuckets'[EngineKey].lastRefill, 0, TRUE)
      ]_vars

\* ------------------------------------------------------------------- C27
\* the algorithm an Acquire with this string works on
AlgorithmOf(algorithm) ==
    IF algorithm = "leaky_bucket" THEN "leaky_bucket" ELSE "token_bucket"

\* an Acquire that returned false
Rejected == Did("Acquire") /\ ~out'.panic /\ ~out'.result

\* a rejected Acquire whose script ran: the count was not negative, the
\* shard answered and the stored value, if any, could be decoded
RejectedByScript ==
    /\ Rejected
    /\ out'.n >= 0
    /\ out'.up
    /\ RecordOf(out'.key, AlgorithmOf(out'.algorithm)).algorithm # "corrupt"

\* after the step the shard holds a record of the key for the algorithm,
\* and the status of that algorithm has state
RecordKept(key, algorithm) ==
    LET s == GetClient(key).client
    IN  IF algorithm = "leaky_bucket"
        THEN /\ Get(redis'[s], LeakyKey(key)) # NoRecord
             /\ getLeakyBucketStatus(redis'[s], shardUp'[s], leakyBuckets', key, now').status.hasState
        ELSE /\ Get(redis'[s], TokenKey(key)) # NoRecord
             /\ getTokenBucketStatus(redis'[s], shardUp'[s], tokenBuckets', key, now').status.hasState

\* the record after the step holds the level refilled (the queue drained)
\* up to the present instant and the anchor advanced by the periods
\* counted, as the encoding stores it
RecordBroughtForward(key, algorithm) ==
    LET s == GetClient(key).client
        old == RecordOf(key, algorithm)
        new == Get(redis'[s], IF algorithm = "leaky_bucket" THEN LeakyKey(key) ELSE TokenKey(key))
    IN  IF algorithm = "leaky_bucket"
        THEN LET queue == IF old = NoRecord THEN 0 ELSE old.queue_length
                 anchor == IF old = NoRecord THEN now ELSE old.last_leak_ns
                 drained == min(Max0((now - anchor) \div RefillRate), queue)
             IN  /\ new.queue_length = queue - drained
                 /\ new.last_leak_ns = EncodeNumber(anchor + drained * RefillRate)
        ELSE LET level == IF old = NoRecord THEN Capacity ELSE old.tokens
                 anchor == IF old = NoRecord THEN now ELSE old.last_refill_ns
                 periods == Max0((now - anchor) \div RefillRate)
             IN  /\ new.tokens = min(Capacity, level + periods)
                 /\ new.last_refill_ns = EncodeNumber(anchor + periods * RefillRate)

\* C27: the atomic cycle stores its result on a rejected attempt too: after
\* a TryConsume / TryAdd that the shard's script rejected, a record of the
\* key exists on the shard with the refilled (drained) level and the
\* advanced anchor, and GetStatus reports hasState = true, whether or not a
\* request was ever admitted.
C27_ScriptRejectionPersisted ==
    [][ RejectedByScript =>
            /\ RecordKept(out'.key, AlgorithmOf(out'.algorithm))
            /\ RecordBroughtForward(out'.key, AlgorithmOf(out'.algorithm))
      ]_vars

\* a GetStatus that finds state although no request was ever admitted
C27_Witness ==
    /\ out.op = "GetStatus"
    /\ out.tokenBucketStatus # NoDetail
    /\ out.tokenBucketStatus.hasState
    /\ metrics.total >= 1
    /\ metrics.successful = 0

\* ------------------------------------------------------------------- C28
\* what the shard's engine answers to the request on the record it holds
ShardDecision(key, tokens, algorithm) ==
    LET store == redis[GetClient(key).client]
    IN  IF algorithm = "leaky_bucket"
        THEN LET r == RedisTryAdd(TRUE, Get(store, LeakyKey(key)), tokens,
                                  Capacity, RefillRate, now)
             IN  [store |-> Store(store, LeakyKey(key), r.data), ok |-> r.ok]
        ELSE LET r == RedisTryConsume(TRUE, Get(store, TokenKey(key)), tokens,
                                      Capacity, RefillRate, now)
             IN  [store |-> Store(store, TokenKey(key), r.data), ok |-> r.ok]

\* C28: the fallback is not sticky: a failed call to a shard leaves nothing
\* behind on the shards or in the in-memory buckets, every Acquire goes to the
\* key's shard first, and while the shard answers the decision is the one the
\* shard's record gives, whatever calls failed before.
C28_FallbackNotSticky ==
    [][ (Did("Acquire") /\ ~out'.panic) =>
            LET s == GetClient(out'.key).client
                d == ShardDecision(out'.key, out'.n, out'.algorithm)
            IN  /\ out'.index = s
                /\ out'.up = shardUp[s]
                /\ shardUp[s] =>
                      /\ out'.result = d.ok
                      /\ redis' = [redis EXCEPT ![s] = d.store]
                /\ ~shardUp[s] => redis' = redis
                /\ tokenBuckets' = tokenBuckets
                /\ leakyBuckets' = leakyBuckets
      ]_vars

\* a request is admitted from the shard's record after an earlier request
\* failed during an outage
C28_Witness ==
    /\ out.op = "Acquire"
    /\ out.up
    /\ out.result
    /\ out.algorithm = "token_bucket"
    /\ metrics.rateLimited >= 1
    /\ Get(redis[out.index], TokenKey(out.key)) # NoRecord

\* ------------------------------------------------------------------- C29
\* "redis-1" .. "redis-9" written out
RedisName(k) == <<114, 101, 100, 105, 115, 45, 48 + k>>

\* C29: GetHealthStatus answers with exactly one entry per configured shard,
\* named redis-1 .. redis-N in the order of the configuration, and the entry
\* of a shard is true exactly when the probe of that shard made in this call
\* succeeded, whatever the other shards answer.
C29_HealthPerShard ==
    out.op = "GetHealthStatus" =>
        /\ LenClients <= 9
        /\ DOMAIN out.status = {RedisName(k) : k \in 1..LenClients}
        /\ Cardinality(DOMAIN out.status) = LenClients
        /\ \A k \in 1..LenClients : out.status[RedisName(k)] = shardUp[k - 1]

\* a health answer while one shard answers and another does not
C29_Witness ==
    /\ out.op = "GetHealthStatus"
    /\ \E i, j \in DOMAIN shardUp : shardUp[i] /\ ~shardUp[j]
    /\ \E name \in DOMAIN out.status : out.status[name]
    /\ \E name \in DOMAIN out.status : ~out.status[name]

WithinOnePeriod == now .. (now + RefillRate - 1)

\* C31: the leaky bucket drains at most one unit per period while it is not
\* empty; in particular units admitted into an empty bucket, however long it
\* had been empty, are all still queued at every operation made less than
\* one period after they were added, in the in-memory bucket and in the
\* shard's record.
C31_NoDrainCreditWhileEmpty ==
    [][ (Did("TryAdd") /\ out'.n > 0) =>
            /\ (out'.localOk /\ EngLb'.queue = out'.n) =>
                  \A t \in WithinOnePeriod :
                      LeakyGetStatus(EngLb', t).queueLength = out'.n
            /\ (out'.remoteOk /\ EngLbr'.queue_length = out'.n) =>
                  \A t \in WithinOnePeriod :
                      RedisLeakyGetStatus(TRUE, EngLbr', Capacity, RefillRate, t).queueLength
                          = out'.n
      ]_vars

\* ------------------------------------------------------------------- C32
\* ------------------------------- the shard's records under a configuration
\* config.RateLimit as loaded from the environment: DEFAULT_CAPACITY and
\* DEFAULT_REFILL_RATE are free, the scripts' EXPIRE is not.  The run keeps
\* its configuration in `mode`; `hist` remembers the record last stored.
RateLimits ==
    [algorithm : {"token_bucket", "leaky_bucket"},
     capacity : 1 .. Capacity,
     refill : {RefillRate, 2 * RefillRate}]

InitConfig ==
    /\ now = 0
    /\ shardUp = [s \in Shards |-> TRUE]
    /\ redis = [s \in Shards |-> EmptyMap]
    /\ tokenBuckets = EmptyMap
    /\ leakyBuckets = EmptyMap
    /\ metrics = NoMetrics
    /\ out = NoOut
    /\ hist = NoHist
    /\ callers = NoCallers
    /\ mutex = 0
    /\ mode \in RateLimits

\* TokenBucketRedis.TryConsume with the configured capacity and period
ConfTryConsume(n) ==
    /\ mode.algorithm = "token_bucket"
    /\ LET name == TokenKey(EngineKey)
           data == Get(redis[EngineShard], name)
           r == RedisTryConsume(TRUE, data, n, mode.capacity, mode.refill, now)
       IN  /\ redis' = [redis EXCEPT ![EngineShard] = Store(@, name, r.data)]
           /\ out' = [op |-> "TryConsume", n |-> n, remoteOk |-> r.ok,
                      remoteNew |-> data = NoRecord]
           /\ hist' = [valid |-> TRUE, data |-> r.data]
    /\ UNCHANGED <<now, shardUp, tokenBuckets, leakyBuckets, metrics, mode, callers, mutex>>

\* LeakyBucketRedis.TryAdd with the configured capacity and period
ConfTryAdd(n) ==
    /\ mode.algorithm = "leaky_bucket"
    /\ LET name == LeakyKey(EngineKey)
           data == Get(redis[EngineShard], name)
           r == RedisTryAdd(TRUE, data, n, mode.capacity, mode.refill, now)
       IN  /\ redis' = [redis EXCEPT ![EngineShard] = Store(@, name, r.data)]
           /\ out' = [op |-> "TryAdd", n |-> n, remoteOk |-> r.ok,
                      remoteNew |-> data = NoRecord]
           /\ hist' = [valid |-> TRUE, data |-> r.data]
    /\ UNCHANGED <<now, shardUp, tokenBuckets, leakyBuckets, metrics, mode, callers, mutex>>

NextConfig ==
    \/ ExpiryTick
    \/ \E n \in 1 .. Capacity : ConfTryConsume(n)
    \/ \E n \in 1 .. Capacity : ConfTryAdd(n)

SpecConfig == InitConfig /\ [][NextConfig]_vars

\* the record of the key has expired: one was stored, none is held
Expired ==
    /\ hist.valid
    /\ Get(redis[EngineShard], TokenKey(EngineKey)) = NoRecord
    /\ Get(redis[EngineShard], LeakyKey(EngineKey)) = NoRecord

\* C32: under every configuration of capacity and period, when a call finds
\* the key's record expired and creates it anew (token bucket full, leaky
\* bucket empty), the expired record brought to that instant by refill or
\* drain alone would be at that same level: full, respectively empty.
C32_ExpiryGrantsNothing ==
    [][ (Expired /\ (Did("TryConsume") \/ Did("TryAdd"))) =>
            IF mode.algorithm = "token_bucket"
            THEN RedisTokenGetStatus(TRUE, hist.data, mode.capacity, mode.refill, now).tokensLeft
                     = mode.capacity
            ELSE RedisLeakyGetStatus(TRUE, hist.data, mode.capacity, mode.refill, now).queueLength
                     = 0
      ]_vars

\* ------------------------------------------------------------------- C33
\* a request of n units is within the reported number of free units
Within(n, tokensLeft) == 0 <= n /\ n <= tokensLeft

\* C33: when GetStatus has just reported t free units for a bucket or a
\* record, a request of n units of that algorithm made at the same instant
\* is admitted exactly when 0 <= n <= t, for the in-memory buckets and for
\* the shard's records of both algorithms.
C33_StatusAgreesWithAcquire ==
    [][ /\ Did("TokenStatus") =>
              \A n \in Requests :
                  /\ TryConsume(EngTb', n, now).ok <=> Within(n, out'.local.tokensLeft)
                  /\ RedisTryConsume(TRUE, EngTbr', n, Capacity, RefillRate, now).ok
                         <=> Within(n, out'.remote.tokensLeft)
        /\ Did("LeakyStatus") =>
              \A n \in Requests :
                  /\ TryAdd(EngLb', n, now).ok
                         <=> Within(n, out'.local.capacity - out'.local.queueLength)
                  /\ RedisTryAdd(TRUE, EngLbr', n, Capacity, RefillRate, now).ok
                         <=> Within(n, out'.remote.capacity - out'.remote.queueLength)
      ]_vars

\* ------------------------------------------------------------------- C34
\* ------------------------------ a second process reading the shard's records
\* The records are written by one process of the service (clock `now`) and
\* read by another whose clock is behind by up to MaxLag ticks; the reader
\* has no buckets of its own.
MaxLag == 2 * RefillRate

\* rrs.getTokenBucketStatus and rrs.getLeakyBucketStatus in a process whose
\* time.Now() is now - lag
LaggingStatus(lag) ==
    /\ lag <= now
    /\ LET t == getTokenBucketStatus(redis[EngineShard], TRUE, EmptyMap, EngineKey, now - lag)
           l == getLeakyBucketStatus(redis[EngineShard], TRUE, EmptyMap, EngineKey, now - lag)
       IN  out' = [op |-> "GetStatus", clock |-> now - lag,
                   tokenBucketStatus |-> t.status, leakyBucketStatus |-> l.status]
    /\ UNCHANGED <<now, shardUp, redis, tokenBuckets, leakyBuckets, metrics, hist, mode, callers, mutex>>

NextLagging ==
    \/ EngineMode /\ Tick
    \/ \E n \in Requests : EngTryConsume(n)
    \/ \E n \in Requests : EngTryAdd(n)
    \/ \E lag \in 0 .. MaxLag : LaggingStatus(lag)

SpecLagging == InitEngines /\ [][NextLagging]_vars

\* C34: every status view of a shard record, of either algorithm, reports a
\* number of free units in 0..capacity, whatever the reader's clock is,
\* also when it is behind the record's anchor by more than one period.
C34_StatusViewWithinCapacity ==
    out.op = "GetStatus" =>
        /\ 0 <= out.tokenBucketStatus.tokensLeft
        /\ out.tokenBucketStatus.tokensLeft <= out.tokenBucketStatus.capacity
        /\ 0 <= out.leakyBucketStatus.tokensLeft
        /\ out.leakyBucketStatus.tokensLeft <= out.leakyBucketStatus.capacity

\* ------------------------------------------------------------------- C35
\* the instants from the present one on
LaterInstants == now .. (MaxTime + RefillRate)

\* every operation made on the bucket `after` at any later instant returns
\* what it returns on the bucket `before` and, unless it is refused before
\* the bucket is looked at (n < 0), leaves the same bucket
SameFutureToken(before, after) ==
    \A t \in LaterInstants :
        /\ TokenGetStatus(after, t) = TokenGetStatus(before, t)
        /\ \A n \in Requests :
              /\ TryConsume(after, n, t).ok = TryConsume(before, n, t).ok
              /\ n >= 0 => TryConsume(after, n, t).bucket = TryConsume(before, n, t).bucket

SameFutureLeaky(before, after) ==
    \A t \in LaterInstants :
        /\ LeakyGetStatus(after, t) = LeakyGetStatus(before, t)
        /\ \A n \in Requests :
              /\ TryAdd(after, n, t).ok = TryAdd(before, n, t).ok
              /\ n >= 0 => TryAdd(after, n, t).bucket = TryAdd(before, n, t).bucket

\* C35: a GetStatus call leaves nothing behind that a later call can see.
\* On the shard it writes nothing: no record is created or rewritten and no
\* expiry moves.  The in-memory bucket it refills or drains in place answers
\* every later Acquire and every later GetStatus, at every later instant,
\* as the bucket before the call would, and is left by them in the same
\* state.
C35_StatusTransparent ==
    [][ /\ Did("TokenStatus") =>
              /\ redis' = redis
              /\ leakyBuckets' = leakyBuckets
              /\ SameFutureToken(EngTb, EngTb')
        /\ Did("LeakyStatus") =>
              /\ redis' = redis
              /\ tokenBuckets' = tokenBuckets
              /\ SameFutureLeaky(EngLb, EngLb')
      ]_vars

\* a status call has just refilled the in-memory bucket in place, the
\* shard holding a record of the key
C35_Witness ==
    /\ out.op = "TokenStatus"
    /\ hist.valid
    /\ EngTb.lastRefill > hist.anchor
    /\ EngTb.tokens > hist.level
    /\ EngTbr # NoRecord

\* ------------------------------------------------------------------- C36
\* ------------------------------- concurrent callers of the fallback maps
\* Callers of acquireInMemoryFallback for one key, one unit each, run step
\* by step.  The maps hold pointers: tokenBuckets / leakyBuckets map the key
\* to the number of a bucket and `hist` holds the buckets allocated so far,
\* by number.  `mutex` is rrs.mutex: the number of read locks held and the
\* caller holding the write lock (0: none).
InitCreate ==
    /\ now = 0
    /\ shardUp = [s \in Shards |-> TRUE]
    /\ redis = [s \in Shards |-> EmptyMap]
    /\ tokenBuckets = EmptyMap
    /\ leakyBuckets = EmptyMap
    /\ metrics = NoMetrics
    /\ out = NoOut
    /\ hist = EmptyMap
    /\ mode \in {"token_bucket", "leaky_bucket"}
    /\ callers = [c \in Callers |-> [pc |-> "start", got |-> 0, path |-> "none", ok |-> FALSE]]
    /\ mutex = [readers |-> 0, writer |-> 0]

\* the map the algorithm of the run uses
TheMap == IF mode = "leaky_bucket" THEN leakyBuckets ELSE tokenBuckets

SetMap(m) ==
    /\ tokenBuckets' = IF mode = "leaky_bucket" THEN tokenBuckets ELSE m
    /\ leakyBuckets' = IF mode = "leaky_bucket" THEN m ELSE leakyBuckets

CreateFrame == UNCHANGED <<now, shardUp, redis, metrics, out, mode>>

\* a second look that is not taken: the caller trusts its first look
recheckSkipped(buckets, key) == FALSE

\* getOrCreate*: `if bucket, exists := ...[key]; exists` under the write lock
recheck(buckets, key) == key \in DOMAIN buckets

\* rrs.mutex.RLock()
CreateRLock(c) ==
    /\ callers[c].pc = "start"
    /\ mutex.writer = 0
    /\ mutex' = [mutex EXCEPT !.readers = @ + 1]
    /\ callers' = [callers EXCEPT ![c].pc = "lookup"]
    /\ UNCHANGED <<tokenBuckets, leakyBuckets, hist>>
    /\ CreateFrame

\* the first look, then rrs.mutex.RUnlock(): the bucket is returned when
\* the key is there
CreateLookup(c) ==
    /\ callers[c].pc = "lookup"
    /\ mutex' = [mutex EXCEPT !.readers = @ - 1]
    /\ callers' = IF EngineKey \in DOMAIN TheMap
                  THEN [callers EXCEPT ![c].pc = "use", ![c].got = TheMap[EngineKey],
                                       ![c].path = "read"]
                  ELSE [callers EXCEPT ![c].pc = "lock"]
    /\ UNCHANGED <<tokenBuckets, leakyBuckets, hist>>
    /\ CreateFrame

\* rrs.mutex.Lock()
CreateLock(c) ==
    /\ callers[c].pc = "lock"
    /\ mutex.writer = 0
    /\ mutex.readers = 0
    /\ mutex' = [mutex EXCEPT !.writer = c]
    /\ callers' = [callers EXCEPT ![c].pc = "recheck"]
    /\ UNCHANGED <<tokenBuckets, leakyBuckets, hist>>
    /\ CreateFrame

\* the second look; NewTokenBucket / NewLeakyBucket and the insertion when
\* the key is still missing; the deferred rrs.mutex.Unlock()
CreateRecheck(c) ==
    /\ callers[c].pc = "recheck"
    /\ mutex' = [mutex EXCEPT !.writer = 0]
    /\ IF recheck(TheMap, EngineKey)
       THEN /\ callers' = [callers EXCEPT ![c].pc = "use", ![c].got = TheMap[EngineKey],
                                          ![c].path = "recheck"]
            /\ UNCHANGED <<tokenBuckets, leakyBuckets, hist>>
       ELSE LET p == Cardinality(DOMAIN hist) + 1
            IN  /\ hist' = Put(hist, p,
                               IF mode = "leaky_bucket"
                               THEN NewLeakyBucket(Capacity, RefillRate, now)
                               ELSE NewTokenBucket(Capacity, RefillRate, now))
                /\ SetMap(Put(TheMap, EngineKey, p))
                /\ callers' = [callers EXCEPT ![c].pc = "use", ![c].got = p,
                                              ![c].path = "created"]
    /\ CreateFrame

\* acquireInMemoryFallback: bucket.TryConsume(tokens) / bucket.TryAdd(tokens)
\* on the bucket the caller was given, under the bucket's own lock
CreateUse(c) ==
    /\ callers[c].pc = "use"
    /\ LET p == callers[c].got
           r == IF mode = "leaky_bucket" THEN TryAdd(hist[p], 1, now)
                ELSE TryConsume(hist[p], 1, now)
       IN  /\ hist' = [hist EXCEPT ![p] = r.bucket]
           /\ callers' = [callers EXCEPT ![c].pc = "done", ![c].ok = r.ok]
    /\ UNCHANGED <<tokenBuckets, leakyBuckets, mutex>>
    /\ CreateFrame

NextCreate ==
    \/ \E c \in Callers : CreateRLock(c)
    \/ \E c \in Callers : CreateLookup(c)
    \/ \E c \in Callers : CreateLock(c)
    \/ \E c \in Callers : CreateRecheck(c)
    \/ \E c \in Callers : CreateUse(c)

SpecCreate == InitCreate /\ [][NextCreate]_vars

\* the units taken from a bucket since it was made
Taken(bucket) ==
    IF mode = "leaky_bucket" THEN bucket.queue ELSE bucket.capacity - bucket.tokens

\* C36: however the callers of getOrCreateTokenBucket / getOrCreateLeakyBucket
\* for one key interleave, at most one bucket is ever made for the key, every
\* caller that has been given a bucket holds the one the map holds (so the
\* entry is never replaced or removed), and every admitted unit is counted in
\* that bucket.
C36_OneSharedBucketPerKey ==
    /\ Cardinality(DOMAIN hist) <= 1
    /\ \A c \in Callers :
          callers[c].got # 0 =>
              /\ EngineKey \in DOMAIN TheMap
              /\ TheMap[EngineKey] = callers[c].got
    /\ Cardinality({c \in Callers : callers[c].ok})
          = IF EngineKey \in DOMAIN TheMap THEN Taken(hist[TheMap[EngineKey]]) ELSE 0

\* all callers are through; two of them had missed the key at their first
\* look, one made the bucket and the other found it at its second look; the
\* bucket admitted as many callers as it has room for
C36_Witness ==
    /\ \A c \in Callers : callers[c].pc = "done"
    /\ \E c \in Callers : callers[c].path = "recheck"
    /\ \E c \in Callers : callers[c].path = "read"
    /\ Cardinality({c \in Callers : callers[c].ok}) = Capacity

\* ------------------------------------------------------------------- C37
\* ------------------------------ GetMetrics while requests are recorded
\* The callers of Acquire record their requests step by step, as in the
\* metrics model; one more goroutine, the reader, runs
\* MetricsCollector.GetMetrics, one atomic load at a time.
MetricsReader == 0

InitSnapshot ==
    /\ now = 0
    /\ shardUp = [s \in Shards |-> TRUE]
    /\ redis = [s \in Shards |-> EmptyMap]
    /\ tokenBuckets = EmptyMap
    /\ leakyBuckets = EmptyMap
    /\ metrics = NoMetrics
    /\ out = NoOut
    /\ hist = NoHist
    /\ mode = "metrics"
    /\ \E n \in {-1, 1, Capacity} :
          callers = [c \in Callers \cup {MetricsReader} |->
                        IF c = MetricsReader
                        THEN [pc |-> "total", total |-> 0, successful |-> 0, rateLimited |-> 0]
                        ELSE [pc |-> "start", n |-> n, t |-> 0, seen |-> 0, ok |-> FALSE]]
    /\ mutex = 0

SnapshotFrame ==
    UNCHANGED <<now, shardUp, redis, tokenBuckets, leakyBuckets, metrics, hist, mode, mutex>>

\* totalRequests := atomic.LoadInt64(&mc.totalRequests)
LoadTotal ==
    /\ callers[MetricsReader].pc = "total"
    /\ callers' = [callers EXCEPT ![MetricsReader].pc = "successful",
                                  ![MetricsReader].total = metrics.total]
    /\ out' = NoOut
    /\ SnapshotFrame

\* successfulRequests := atomic.LoadInt64(&mc.successfulRequests)
LoadSuccessful ==
    /\ callers[MetricsReader].pc = "successful"
    /\ callers' = [callers EXCEPT ![MetricsReader].pc = "rateLimited",
                                  ![MetricsReader].successful = metrics.successful]
    /\ UNCHANGED out
    /\ SnapshotFrame

\* rateLimitedRequests := atomic.LoadInt64(&mc.rateLimitedRequests)
LoadRateLimited ==
    /\ callers[MetricsReader].pc = "rateLimited"
    /\ callers' = [callers EXCEPT ![MetricsReader].pc = "errors",
                                  ![MetricsReader].rateLimited = metrics.rateLimited]
    /\ UNCHANGED out
    /\ SnapshotFrame

\* errorRequests := atomic.LoadInt64(&mc.errorRequests); the map returned
LoadErrors ==
    /\ callers[MetricsReader].pc = "errors"
    /\ callers' = [callers EXCEPT ![MetricsReader].pc = "total"]
    /\ out' = [op |-> "GetMetrics",
               total |-> callers[MetricsReader].total,
               successful |-> callers[MetricsReader].successful,
               rateLimited |-> callers[MetricsReader].rateLimited,
               errors |-> metrics.errors]
    /\ SnapshotFrame

NextSnapshot ==
    \/ ShardDown(GetClientIndex(EngineKey))
    \/ ShardUp(GetClientIndex(EngineKey))
    \/ \E c \in Callers : AcquireDecide(c)
    \/ \E c \in Callers : AcquireCountTotal(c)
    \/ \E c \in Callers : AcquireCountOutcome(c)
    \/ LoadTotal
    \/ LoadSuccessful
    \/ LoadRateLimited
    \/ LoadErrors

SpecSnapshot == InitSnapshot /\ [][NextSnapshot]_vars

\* C37: every snapshot GetMetrics returns while requests are being recorded
\* has its total equal to the sum of its three outcome counters.
C37_SnapshotConsistent ==
    out.op = "GetMetrics" =>
        out.total = out.successful + out.rateLimited + out.errors

\* ------------------------------------------------------------------- C38
\* C38: every Acquire that returns false is recorded as rate limited and
\* every one that returns true as successful; the error counter is never
\* moved by Acquire, also when the denial comes from a failing shard.
C38_DenialsCountedRateLimited ==
    [][ (Did("Acquire") /\ ~out'.panic) =>
            /\ metrics'.total = metrics.total + 1
            /\ metrics'.errors = metrics.errors
            /\ metrics'.successful = metrics.successful + (IF out'.result THEN 1 ELSE 0)
            /\ metrics'.rateLimited = metrics.rateLimited + (IF out'.result THEN 0 ELSE 1)
      ]_vars

\* an Acquire has just been refused because its shard does not answer, and
\* was counted as rate limited
C38_Witness ==
    /\ out.op = "Acquire"
    /\ ~out.up
    /\ ~out.result
    /\ out.n = 1
    /\ metrics.rateLimited >= 1
    /\ metrics.errors = 0

\* ------------------------------------------------------------------- C39
\* ------------------------------------ the /acquire and /status endpoints
\* Requests arrive with an Authorization header and a body (or query) of
\* the client's choosing; JWTMiddleware stands before both handlers.
NoKey == << >>

\* the callers that hold tokens
Users == {<<97>>, <<102>>}

\* Authorization headers: none, one that is not "Bearer <token>", and
\* tokens for each user id (the empty one included), signed with the
\* server's secret or not
AuthHeaders ==
    [kind : {"none", "malformed"}, signed : {FALSE}, user : {NoKey}]
        \cup [kind : {"bearer"}, signed : BOOLEAN, user : Users \cup {NoKey}]

\* bodies of POST /acquire: one that is not JSON, and every choice of key,
\* permit count and algorithm
AcquireBodies ==
    [decodes : {FALSE}, key : {NoKey}, tokens : {0}, algorithm : {""}]
        \cup [decodes : {TRUE}, key : Users \cup {NoKey}, tokens : {0, 1},
              algorithm : {"", "leaky_bucket"}]

\* JWTMiddleware: 401 unless the header carries a token that
\* jwt.ParseWithClaims accepts and whose user_id is not empty; then the
\* user id is put in the request context and the handler is called
JWTMiddleware(authorization) ==
    IF authorization.kind = "none" THEN [next |-> FALSE, code |-> 401, userID |-> NoKey]
    ELSE IF authorization.kind # "bearer" THEN [next |-> FALSE, code |-> 401, userID |-> NoKey]
    ELSE IF ~authorization.signed THEN [next |-> FALSE, code |-> 401, userID |-> NoKey]
    ELSE IF authorization.user = NoKey THEN [next |-> FALSE, code |-> 401, userID |-> NoKey]
    ELSE [next |-> TRUE, code |-> 0, userID |-> authorization.user]

\* a handler that lets the body name the bucket
requestKeyFromBody(userID, bodyKey) == IF bodyKey = NoKey THEN userID ELSE bodyKey

\* AcquireHandler: req.Key = userID
requestKey(userID, bodyKey) == userID

InitEntry ==
    /\ now = 0
    /\ shardUp = [s \in Shards |-> TRUE]
    /\ redis = [s \in Shards |-> EmptyMap]
    /\ tokenBuckets = EmptyMap
    /\ leakyBuckets = EmptyMap
    /\ metrics = NoMetrics
    /\ out = NoOut
    /\ hist = NoHist
    /\ callers = NoCallers
    /\ mutex = 0
    /\ mode = "entry"

\* POST /acquire: JWTMiddleware, then AcquireHandler (500 without a user
\* id in the context, 400 on a body that does not decode), then rrs.Acquire
\* with the key, the permit count and the algorithm after the defaults
AcquireEndpoint(authorization, body) ==
    /\ metrics.total < MaxRequests
    /\ LET m == JWTMiddleware(authorization)
           userID == m.userID
           key == requestKey(userID, body.key)
           c == GetClient(key).client
           r == acquireRedis(redis[c], shardUp[c], key, DefaultTokens(body.tokens),
                             DefaultAlgorithm(body.algorithm), now)
           refused(code) ==
               /\ out' = [op |-> "AcquireEndpoint", authorization |-> authorization,
                          body |-> body, code |-> code, reached |-> FALSE, key |-> NoKey]
               /\ UNCHANGED <<redis, metrics>>
       IN  IF ~m.next THEN refused(m.code)
           ELSE IF userID = NoKey THEN refused(500)
           ELSE IF ~body.decodes THEN refused(400)
           ELSE /\ redis' = [redis EXCEPT ![c] = r.store]
                /\ metrics' = RecordRequest(metrics, r.ok, ~r.ok)
                /\ out' = [op |-> "AcquireEndpoint", authorization |-> authorization,
                           body |-> body, code |-> IF r.ok THEN 200 ELSE 429,
                           reached |-> TRUE, key |-> key]
    /\ UNCHANGED <<now, shardUp, tokenBuckets, leakyBuckets, hist, mode, callers, mutex>>

\* GET /status: JWTMiddleware, then StatusHandler, which asks the service
\* for the user id of the context; a key in the query is not read
StatusEndpoint(authorization, queryKey) ==
    /\ LET m == JWTMiddleware(authorization)
           userID == m.userID
           c == GetClient(userID).client
       IN  IF ~m.next \/ userID = NoKey
           THEN out' = [op |-> "StatusEndpoint", authorization |-> authorization,
                       query |-> queryKey, code |-> IF m.next THEN 500 ELSE m.code,
                       reached |-> FALSE, key |-> NoKey,
                       tokenBucketStatus |-> NoDetail, leakyBucketStatus |-> NoDetail]
           ELSE out' = [op |-> "StatusEndpoint", authorization |-> authorization,
                       query |-> queryKey, code |-> 200, reached |-> TRUE, key |-> userID,
                       tokenBucketStatus |->
                           getTokenBucketStatus(redis[c], shardUp[c], tokenBuckets,
                                                userID, now).status,
                       leakyBucketStatus |->
                           getLeakyBucketStatus(redis[c], shardUp[c], leakyBuckets,
                                                userID, now).status]
    /\ UNCHANGED <<now, shardUp, redis, tokenBuckets, leakyBuckets, metrics, hist, mode, callers, mutex>>

NextEntry ==
    \/ StartupTick
    \/ \E a \in AuthHeaders, body \in AcquireBodies : AcquireEndpoint(a, body)
    \/ \E a \in AuthHeaders, q \in Users \cup {NoKey} : StatusEndpoint(a, q)

SpecEntry == InitEntry /\ [][NextEntry]_vars

\* the identity a request proves: the user id of a token signed with the
\* server's secret, none otherwise
VerifiedUser(authorization) ==
    IF authorization.kind = "bearer" /\ authorization.signed THEN authorization.user
    ELSE NoKey

\* what the shards hold for a caller, under both algorithms
BucketsOf(store, k) ==
    [s \in DOMAIN store |-> <<Get(store[s], TokenKey(k)), Get(store[s], LeakyKey(k))>>]

\* C39: whatever the body of a request to /acquire says, the only bucket it
\* can change is that of the user id its token proves, and the only status
\* a request to /status is answered with is that user's; a request that
\* proves no user id reaches neither Acquire nor GetStatus.
C39_OnlyOwnBucket ==
    [][ /\ Did("AcquireEndpoint") =>
              /\ \A k \in Users \ {VerifiedUser(out'.authorization)} :
                    BucketsOf(redis', k) = BucketsOf(redis, k)
              /\ out'.reached => out'.key = VerifiedUser(out'.authorization)
              /\ VerifiedUser(out'.authorization) = NoKey =>
                    /\ ~out'.reached
                    /\ redis' = redis
                    /\ metrics' = metrics
        /\ Did("StatusEndpoint") =>
              /\ out'.reached => out'.key = VerifiedUser(out'.authorization)
              /\ VerifiedUser(out'.authorization) = NoKey => ~out'.reached
      ]_vars

\* a request whose body names the other user's key has been admitted and
\* charged to the bucket of the token's user, the other user having none
C39_Witness ==
    /\ out.op = "AcquireEndpoint"
    /\ out.reached
    /\ out.code = 200
    /\ out.body.key \in Users \ {out.key}
    /\ \E s \in Shards : TokenKey(out.key) \in DOMAIN redis[s]
    /\ \A s \in Shards : TokenKey(out.body.key) \notin DOMAIN redis[s]
    /\ \A s \in Shards : LeakyKey(out.body.key) \notin DOMAIN redis[s]

====
